---- MODULE Spec2Model ----
(***************************************************************************)
(* Model of tidal-song-collection-extractor: the CSV codec of              *)
(* TrackFormatter, the TidalCollector operations against the upstream     *)
(* Tidal client, and the TidalExtractor facade.                            *)
(*                                                                         *)
(* Text is modelled as a sequence of one-character strings, so that        *)
(* ", ".join, str.split(","), str.strip, str(int) and int(str) are          *)
(* computed character by character.  An optional integer (Python int or    *)
(* None) is a sequence of length 0 (None) or 1.                            *)
(***************************************************************************)
EXTENDS Integers, Sequences, FiniteSets, TLC

VARIABLES
    fileExists,   \* the CSV path exists on disk
    fileLines,    \* its content as the csv module sees it: list of rows of cells
    savedTracks,  \* `tracks` argument of the last save_tracks_to_file call
    savedFields,  \* `csv_fields` argument of that call (<<>> is None)
    loadResult,   \* outcome of the last load_tracks_from_csv call
    csvPc,        \* position of the caller of the codec
    fav,          \* upstream: the user's favorite tracks (track ids, in order)
    pls,          \* upstream: playlist id -> [exists, owned, tracks]
    session,      \* TidalExtractor.session: 0 is None, n the n-th Session()
    collector,    \* TidalExtractor.collector: 0 is None, n wraps session n
    authCalls,    \* number of authenticate() calls made so far
    op,           \* the method being called, its arguments and fault plan
    ret,          \* what the method returned, or that it raised
    calls,        \* the upstream calls the method made, in order
    pre,          \* upstream and extractor state when the method was entered
    served,       \* the collector whose method ran in this call (0: none)
    pc,           \* "idle", or "returned" once the method has returned
    seconds,      \* argument of the last format_duration call (<<>> is None)
    formatted,    \* what that call returned (<<>> before any call)
    command,      \* main.py: the click command the process was started with
    cliPc,        \* main.py: where the process is: "start", "connected",
                  \* "menu" (the interactive loop) or "exited"
    exitCode,     \* exit status of the process (<<>> while it runs)
    session_active,   \* main.py global
    exit_requested,   \* main.py global
    issued,       \* Extractor and Collector methods called by the last step
    escaped,      \* what left cli(): "none", "SystemExit0", "SystemExit1",
                  \* "KeyboardInterrupt", "EOFError" or "Exception"
    step          \* the last menu iteration: action, inputs and how it ended

csvVars == <<fileExists, fileLines, savedTracks, savedFields, loadResult, csvPc>>

tidalVars ==
    <<fav, pls, session, collector, authCalls, op, ret, calls, pre, served, pc>>

fmtVars == <<seconds, formatted>>

cliVars ==
    <<command, cliPc, exitCode, session_active, exit_requested, issued,
      escaped, step>>

vars == <<fileExists, fileLines, savedTracks, savedFields, loadResult, csvPc,
          fav, pls, session, collector, authCalls, op, ret, calls, pre, served,
          pc, seconds, formatted, command, cliPc, exitCode, session_active,
          exit_requested, issued, escaped, step>>

----------------------------------------------------------------------------
(* Bounds *)

MaxTracks == 2
MaxArtists == 2
MaxRows == 2
MaxCols == 3
MaxIds == 2
MaxPlaylistLen == 2
MaxAuth == 3
MaxLimit == 4
MaxSeconds == 125

----------------------------------------------------------------------------
(* Python values *)

\* Python None for an optional integer, and Some(n)
None == <<>>
Some(x) == <<x>>

\* Python None where a str is expected (a one-element text that no str equals)
NoneStr == <<"None">>

Range(s) == {s[i] : i \in 1..Len(s)}

SeqsUpTo(S, n) == UNION {[1..k -> S] : k \in 0..n}

RECURSIVE Concat(_)
Concat(ss) == IF ss = <<>> THEN <<>> ELSE Head(ss) \o Concat(Tail(ss))

\* sep.join(parts)
RECURSIVE Join(_, _)
Join(sep, parts) ==
    IF parts = <<>> THEN <<>>
    ELSE IF Len(parts) = 1 THEN parts[1]
    ELSE parts[1] \o sep \o Join(sep, Tail(parts))

\* s.split(c) for a one-character separator: always at least one segment
RECURSIVE Split(_, _)
Split(s, c) ==
    IF \A i \in 1..Len(s) : s[i] # c THEN <<s>>
    ELSE LET k == CHOOSE i \in 1..Len(s) :
                      s[i] = c /\ \A j \in 1..(i-1) : s[j] # c
         IN <<SubSeq(s, 1, k-1)>> \o Split(SubSeq(s, k+1, Len(s)), c)

Whitespace == {" "}

\* s.strip()
RECURSIVE LStrip(_)
LStrip(s) == IF s # <<>> /\ Head(s) \in Whitespace THEN LStrip(Tail(s)) ELSE s
RECURSIVE RStrip(_)
RStrip(s) ==
    IF s # <<>> /\ s[Len(s)] \in Whitespace
    THEN RStrip(SubSeq(s, 1, Len(s)-1)) ELSE s
Strip(s) == RStrip(LStrip(s))

Digits == <<"0", "1", "2", "3", "4", "5", "6", "7", "8", "9">>
DigitSet == Range(Digits)
DigitVal(c) == (CHOOSE i \in 1..10 : Digits[i] = c) - 1

\* str(n) for an int
RECURSIVE StrNat(_)
StrNat(n) == IF n < 10 THEN <<Digits[n+1]>>
             ELSE StrNat(n \div 10) \o <<Digits[(n % 10) + 1]>>
PyStr(n) == IF n < 0 THEN <<"-">> \o StrNat(0 - n) ELSE StrNat(n)

\* int(s) for a str: surrounding whitespace is stripped, one optional sign,
\* then decimal digits, single underscores allowed between digits.
\* ok = FALSE is ValueError.
RECURSIVE NatVal(_, _)
NatVal(ds, acc) ==
    IF ds = <<>> THEN acc
    ELSE IF Head(ds) = "_" THEN NatVal(Tail(ds), acc)
    ELSE NatVal(Tail(ds), acc * 10 + DigitVal(Head(ds)))
IsDigits(ds) ==
    /\ ds # <<>>
    /\ \A i \in 1..Len(ds) : ds[i] \in DigitSet \cup {"_"}
    /\ ds[1] # "_" /\ ds[Len(ds)] # "_"
    /\ \A i \in 1..(Len(ds)-1) : ~(ds[i] = "_" /\ ds[i+1] = "_")
PyInt(s) ==
    LET t == Strip(s)
        signed == t # <<>> /\ Head(t) \in {"+", "-"}
        ds == IF signed THEN Tail(t) ELSE t
    IN IF IsDigits(ds)
       THEN [ok |-> TRUE,
             val |-> IF signed /\ Head(t) = "-" THEN 0 - NatVal(ds, 0)
                     ELSE NatVal(ds, 0)]
       ELSE [ok |-> FALSE, val |-> 0]

----------------------------------------------------------------------------
(* TrackFormatter: the CSV codec (formatter.py) *)

\* f"{n:02d}": the decimal form, zero-padded on the left to two characters
\* (the sign, if any, stays in front and counts)
Pad02d(n) ==
    IF n < 0 THEN <<"-">> \o StrNat(0 - n)
    ELSE IF Len(StrNat(n)) < 2 THEN <<"0">> \o StrNat(n)
    ELSE StrNat(n)

\* FormatDuration that caps the minutes at 59 by writing hours in front
FormatDuration_HoursSplit(secs) ==
    IF secs = None THEN <<"U", "n", "k", "n", "o", "w", "n">>
    ELSE IF secs[1] \div 60 >= 60
    THEN PyStr(secs[1] \div 3600) \o <<":">>
           \o Pad02d((secs[1] \div 60) % 60) \o <<":">> \o Pad02d(secs[1] % 60)
    ELSE PyStr(secs[1] \div 60) \o <<":">> \o Pad02d(secs[1] % 60)

\* format_duration(seconds): "Unknown" for None, else divmod(seconds, 60)
\* printed as minutes, a colon and the seconds on two digits
FormatDuration(secs) ==
    IF secs = None THEN <<"U", "n", "k", "n", "o", "w", "n">>
    ELSE PyStr(secs[1] \div 60) \o <<":">> \o Pad02d(secs[1] % 60)

FieldNames == {"id", "title", "artists", "album", "duration"}

\* save_tracks_to_file: the field list used when csv_fields is None
DefaultFields == <<"id", "title", "artists", "album", "duration">>

\* CellOf writing str(None) for a None value
CellOf_NoneAsText(f, v) ==
    IF f \in {"id", "duration"}
    THEN (IF v = None THEN <<"N", "o", "n", "e">> ELSE PyStr(v[1]))
    ELSE (IF v = NoneStr THEN <<"N", "o", "n", "e">> ELSE v)

\* What csv.writer puts in a cell for the value of field f: None becomes the
\* empty text, an int its decimal form, a str itself.
CellOf(f, v) ==
    IF f \in {"id", "duration"}
    THEN (IF v = None THEN <<>> ELSE PyStr(v[1]))
    ELSE (IF v = NoneStr THEN <<>> ELSE v)

\* track.get(key, default)
TrackGet(track, key, default) ==
    IF key \in DOMAIN track THEN track[key] ELSE default

\* WriteRow with `track.get("duration") or ""`: a duration of 0 is written
\* as the empty cell
WriteRow_FalsyDuration(track, csv_fields) ==
    [i \in 1..Len(csv_fields) |->
        LET field == csv_fields[i] IN
        IF field = "artists"
        THEN CellOf(field, Join(<<",", " ">>, TrackGet(track, "artists", <<>>)))
        ELSE IF field = "duration"
        THEN (IF TrackGet(track, "duration", None) = Some(0) THEN <<>>
              ELSE CellOf(field, TrackGet(track, "duration", None)))
        ELSE IF field \in DOMAIN track THEN CellOf(field, track[field])
        ELSE <<>>]

\* _write_csv_format, the body of `for track in tracks`: the row of one track
WriteRow(track, csv_fields) ==
    [i \in 1..Len(csv_fields) |->
        LET field == csv_fields[i] IN
        IF field = "artists"
        THEN CellOf(field, Join(<<",", " ">>, TrackGet(track, "artists", <<>>)))
        ELSE IF field = "duration"
        THEN CellOf(field, TrackGet(track, "duration", None))
        ELSE IF field \in DOMAIN track THEN CellOf(field, track[field])
        ELSE <<>>]

\* WriteCsvFormat that opens the file before it looks at the list: an empty
\* list leaves an empty file
WriteCsvFormat_TruncateOnEmpty(tracks, csv_fields, exists, lines) ==
    IF tracks = <<>>
    THEN [exists |-> TRUE, lines |-> <<>>]
    ELSE [exists |-> TRUE,
          lines |-> <<csv_fields>> \o
                    [i \in 1..Len(tracks) |-> WriteRow(tracks[i], csv_fields)]]

\* _write_csv_format: nothing is opened or written for an empty list;
\* otherwise the file is truncated and gets the header and one row per track
WriteCsvFormat(tracks, csv_fields, exists, lines) ==
    IF tracks = <<>>
    THEN [exists |-> exists, lines |-> lines]
    ELSE [exists |-> TRUE,
          lines |-> <<csv_fields>> \o
                    [i \in 1..Len(tracks) |-> WriteRow(tracks[i], csv_fields)]]

\* save_tracks_to_file(tracks, filename, csv_fields): fields is None or Some
SaveTracksToFile(tracks, fields, exists, lines) ==
    LET csv_fields == IF fields = None THEN DefaultFields ELSE fields[1]
    IN WriteCsvFormat(tracks, csv_fields, exists, lines)

\* csv.DictReader: the dict built for one row.  A key whose column lies
\* beyond the end of a short row maps to None; among duplicate column
\* names the last one wins.
RowGet(header, row, f) ==
    LET idxs == {i \in 1..Len(header) : header[i] = f} IN
    IF idxs = {} THEN [present |-> FALSE, isNone |-> TRUE, cell |-> <<>>]
    ELSE IF \E i \in idxs : i > Len(row)
    THEN [present |-> TRUE, isNone |-> TRUE, cell |-> <<>>]
    ELSE [present |-> TRUE, isNone |-> FALSE,
          cell |-> row[CHOOSE i \in idxs : \A j \in idxs : j <= i]]

\* `if row.get(f)`: neither None nor the empty str
Truthy(g) == ~g.isNone /\ g.cell # <<>>

\* row.get(f, ""): the default only replaces a missing key
GetOrEmpty(g) == IF ~g.present THEN <<>> ELSE IF g.isNone THEN NoneStr ELSE g.cell

\* load_tracks_from_csv, the body of `for row in reader`; ok = FALSE is the
\* ValueError of int()
ReadRow(header, row) ==
    LET gid == RowGet(header, row, "id")
        gar == RowGet(header, row, "artists")
        gdu == RowGet(header, row, "duration")
        pid == PyInt(gid.cell)
        pdu == PyInt(gdu.cell)
        segs == Split(gar.cell, ",")
    IN [ok |-> (Truthy(gid) => pid.ok) /\ (Truthy(gdu) => pdu.ok),
        track |->
          [id |-> IF Truthy(gid) /\ pid.ok THEN Some(pid.val) ELSE None,
           title |-> GetOrEmpty(RowGet(header, row, "title")),
           artists |-> IF Truthy(gar)
                       THEN [i \in 1..Len(segs) |-> Strip(segs[i])]
                       ELSE <<>>,
           album |-> GetOrEmpty(RowGet(header, row, "album")),
           duration |-> IF Truthy(gdu) /\ pdu.ok THEN Some(pdu.val) ELSE None]]

\* csv.DictReader.__next__ skips the rows that are []
RECURSIVE SkipBlank(_)
SkipBlank(rows) ==
    IF rows = <<>> THEN <<>>
    ELSE IF Head(rows) = <<>> THEN SkipBlank(Tail(rows))
    ELSE <<Head(rows)>> \o SkipBlank(Tail(rows))

RequiredFields == {"id", "title"}

\* LoadTracksFromCsv with the column check weakened to "id or title"
LoadTracksFromCsv_AnyRequired(exists, lines) ==
    IF ~exists
    THEN [status |-> "FileNotFoundError", tracks |-> <<>>, names |-> {}]
    ELSE
      LET fieldnames == IF lines = <<>> THEN <<>> ELSE lines[1]
          rows == SkipBlank(IF lines = <<>> THEN <<>> ELSE Tail(lines))
          read == [i \in 1..Len(rows) |-> ReadRow(fieldnames, rows[i])]
      IN IF RequiredFields \cap Range(fieldnames) = {}
         THEN [status |-> "ValueError", tracks |-> <<>>,
               names |-> {"id", "title"}]
         ELSE IF \E i \in 1..Len(read) : ~read[i].ok
         THEN [status |-> "ValueError", tracks |-> <<>>, names |-> {}]
         ELSE [status |-> "ok",
               tracks |-> [i \in 1..Len(read) |-> read[i].track],
               names |-> {}]

\* load_tracks_from_csv(filename)
LoadTracksFromCsv(exists, lines) ==
    IF ~exists
    THEN [status |-> "FileNotFoundError", tracks |-> <<>>, names |-> {}]
    ELSE
      LET fieldnames == IF lines = <<>> THEN <<>> ELSE lines[1]
          rows == SkipBlank(IF lines = <<>> THEN <<>> ELSE Tail(lines))
          read == [i \in 1..Len(rows) |-> ReadRow(fieldnames, rows[i])]
      IN IF ~(RequiredFields \subseteq Range(fieldnames))
         THEN [status |-> "ValueError", tracks |-> <<>>,
               names |-> {"id", "title"}]
         ELSE IF \E i \in 1..Len(read) : ~read[i].ok
         THEN [status |-> "ValueError", tracks |-> <<>>, names |-> {}]
         ELSE [status |-> "ok",
               tracks |-> [i \in 1..Len(read) |-> read[i].track],
               names |-> {}]

----------------------------------------------------------------------------
(* The upstream Tidal account as the tidalapi client shows it              *)
(*   fav : the favorite tracks, as a list of track ids                     *)
(*   pls : playlist id -> [exists, owned, tracks]                          *)
(* An upstream call is logged as [call, pid, ids].  Every operation takes  *)
(* a fault plan f saying which of its upstream calls raise:                *)
(*   f.x      index of the raising call of a read or create (0: none)      *)
(*   f.r1 f.r2  first and second playlist lookup: "ok", "playlist" or      *)
(*            "factory" (the call that raises)                             *)
(*   f.c      playlist.clear(): "ok", "false" (returns False) or "raise"   *)
(*   f.a      playlist.add(): "ok", "raise_none" (raises, nothing added)   *)
(*            or "raise_partial" (raises after the first id was added)     *)
(*   f.fails  positions of the favorites whose remove_track raises         *)
(***************************************************************************)

Call(c, pid, ids) == [call |-> c, pid |-> pid, ids |-> ids]

NoPid == ""

Unknown == <<"U", "n", "k", "n", "o", "w", "n">>

\* result of a Collector method: what it returns, or that it raised
RetBool(b) == [kind |-> "bool", b |-> b, items |-> <<>>]
RetList(l) == [kind |-> "list", b |-> FALSE, items |-> l]
RetDict(d) == [kind |-> "dict", b |-> FALSE, items |-> <<d>>]
RetNone == [kind |-> "None", b |-> FALSE, items |-> <<>>]
Raised == [kind |-> "raised", b |-> FALSE, items |-> <<>>]

\* outcome of a method: result, upstream calls made, upstream state after
Outcome(r, cs, fv, pl) == [ret |-> r, calls |-> cs, fav |-> fv, pls |-> pl]

\* the track objects of the upstream catalogue, by id: album is "missing"
\* (no attribute), "null" (attribute is None) or "set"
Catalog(id) ==
    IF id = 1
    THEN [id |-> 1, name |-> <<"a">>, artists |-> << <<"a">>, <<"a", ",">> >>,
          albumAttr |-> "set", albumName |-> <<"a">>,
          durationAttr |-> "set", duration |-> Some(0)]
    ELSE IF id = 2
    THEN [id |-> 2, name |-> <<" ", "a">>, artists |-> <<>>,
          albumAttr |-> "null", albumName |-> <<>>,
          durationAttr |-> "missing", duration |-> None]
    ELSE [id |-> id, name |-> <<"a", "a">>, artists |-> << <<"a">> >>,
          albumAttr |-> "missing", albumName |-> <<>>,
          durationAttr |-> "set", duration |-> Some(75)]

\* TrackDict with `track.duration if getattr(track, "duration", None)`: a
\* duration of 0 comes out as None
TrackDict_FalsyDuration(track) ==
    [id |-> Some(track.id),
     title |-> track.name,
     artists |-> track.artists,
     album |-> IF track.albumAttr = "set" THEN track.albumName ELSE Unknown,
     duration |-> IF track.durationAttr # "missing" /\ track.duration # Some(0)
                  THEN track.duration ELSE None]

\* the dict built for one upstream track (collector.py 39-49, 66-76,
\* 110-120, 135-145, 161-169, 209-217 are the same expression)
TrackDict(track) ==
    [id |-> Some(track.id),
     title |-> track.name,
     artists |-> track.artists,
     album |-> IF track.albumAttr = "set" THEN track.albumName ELSE Unknown,
     duration |-> IF track.durationAttr # "missing" THEN track.duration
                  ELSE None]

\* _format_track_results(tracks)
FormatTrackResults(ids) == [i \in 1..Len(ids) |-> TrackDict(Catalog(ids[i]))]

\* tracks[:limit]
SliceTo(l, limit) ==
    IF limit >= 0
    THEN SubSeq(l, 1, IF limit < Len(l) THEN limit ELSE Len(l))
    ELSE SubSeq(l, 1, Len(l) + limit)

\* the dict appended by get_favorite_tracks when self.silent
\* (collector.py 38-48)
FavoriteDictSilent(track) ==
    [id |-> Some(track.id),
     title |-> track.name,
     artists |-> track.artists,
     album |-> IF track.albumAttr = "set" THEN track.albumName ELSE Unknown,
     duration |-> IF track.durationAttr # "missing" THEN track.duration
                  ELSE None]

\* FavoriteDictProgress with the title taken from the album
FavoriteDictProgress_AlbumAsTitle(track) ==
    [id |-> Some(track.id),
     title |-> IF track.albumAttr = "set" THEN track.albumName ELSE Unknown,
     artists |-> track.artists,
     album |-> IF track.albumAttr = "set" THEN track.albumName ELSE Unknown,
     duration |-> IF track.durationAttr # "missing" THEN track.duration
                  ELSE None]

\* the dict appended by get_favorite_tracks under the progress bar
\* (collector.py 65-75)
FavoriteDictProgress(track) ==
    [id |-> Some(track.id),
     title |-> track.name,
     artists |-> track.artists,
     album |-> IF track.albumAttr = "set" THEN track.albumName ELSE Unknown,
     duration |-> IF track.durationAttr # "missing" THEN track.duration
                  ELSE None]

\* get_favorite_tracks() of a collector built with that silent flag:
\* favorites.tracks() is not inside any try; the progress bar of the
\* other branch only counts the tracks
GetFavoriteTracksOf(silent, fv, pl, f) ==
    IF f.x = 1
    THEN Outcome(Raised, <<Call("favorites.tracks", NoPid, <<>>)>>, fv, pl)
    ELSE IF silent
    THEN Outcome(RetList([i \in 1..Len(fv) |->
                             FavoriteDictSilent(Catalog(fv[i]))]),
                 <<Call("favorites.tracks", NoPid, <<>>)>>, fv, pl)
    ELSE Outcome(RetList([i \in 1..Len(fv) |->
                             FavoriteDictProgress(Catalog(fv[i]))]),
                 <<Call("favorites.tracks", NoPid, <<>>)>>, fv, pl)

\* get_favorite_tracks() of the collector TidalExtractor() builds
\* (silent=False)
GetFavoriteTracks(fv, pl, f) == GetFavoriteTracksOf(FALSE, fv, pl, f)

PlaylistDict(pid) == [id |-> pid, name |-> pid, description |-> ""]

\* the ids of the existing playlists the user owns, in upstream order
RECURSIVE OwnedOf(_, _)
OwnedOf(pl, pids) ==
    IF pids = <<>> THEN <<>>
    ELSE (IF pl[Head(pids)].exists /\ pl[Head(pids)].owned
          THEN <<Head(pids)>> ELSE <<>>) \o OwnedOf(pl, Tail(pids))

PlaylistOrder == <<"p1", "p2", "p3">>

\* get_playlists(): user.playlists() is not inside any try
GetPlaylists(fv, pl, f) ==
    IF f.x = 1
    THEN Outcome(Raised, <<Call("user.playlists", NoPid, <<>>)>>, fv, pl)
    ELSE LET own == OwnedOf(pl, PlaylistOrder)
         IN Outcome(RetList([i \in 1..Len(own) |-> PlaylistDict(own[i])]),
                    <<Call("user.playlists", NoPid, <<>>)>>, fv, pl)

\* the dict appended by get_playlist_tracks when self.silent
\* (collector.py 109-119)
PlaylistDictSilent(track) ==
    [id |-> Some(track.id),
     title |-> track.name,
     artists |-> track.artists,
     album |-> IF track.albumAttr = "set" THEN track.albumName ELSE Unknown,
     duration |-> IF track.durationAttr # "missing" THEN track.duration
                  ELSE None]

\* the dict appended by get_playlist_tracks under the progress bar
\* (collector.py 134-144)
PlaylistDictProgress(track) ==
    [id |-> Some(track.id),
     title |-> track.name,
     artists |-> track.artists,
     album |-> IF track.albumAttr = "set" THEN track.albumName ELSE Unknown,
     duration |-> IF track.durationAttr # "missing" THEN track.duration
                  ELSE None]

\* get_playlist_tracks(playlist_id) of a collector built with that silent
\* flag: neither call is inside a try; session.playlist raises for an id
\* that does not exist
GetPlaylistTracksOf(silent, fv, pl, pid, f) ==
    IF f.x = 1 \/ ~pl[pid].exists
    THEN Outcome(Raised, <<Call("session.playlist", pid, <<>>)>>, fv, pl)
    ELSE IF f.x = 2
    THEN Outcome(Raised, <<Call("session.playlist", pid, <<>>),
                           Call("playlist.tracks", pid, <<>>)>>, fv, pl)
    ELSE IF silent
    THEN Outcome(RetList([i \in 1..Len(pl[pid].tracks) |->
                             PlaylistDictSilent(Catalog(pl[pid].tracks[i]))]),
                 <<Call("session.playlist", pid, <<>>),
                   Call("playlist.tracks", pid, <<>>)>>, fv, pl)
    ELSE Outcome(RetList([i \in 1..Len(pl[pid].tracks) |->
                             PlaylistDictProgress(Catalog(pl[pid].tracks[i]))]),
                 <<Call("session.playlist", pid, <<>>),
                   Call("playlist.tracks", pid, <<>>)>>, fv, pl)

GetPlaylistTracks(fv, pl, pid, f) == GetPlaylistTracksOf(FALSE, fv, pl, pid, f)

\* what the upstream search returns for any query, in upstream order
SearchIndex == <<2, 1, 3>>

\* the smallest limit handed to search_tracks: limit is any int
MinLimit == 0 - 1

\* search_tracks(query, limit) of a collector built with that silent
\* flag: session.search is not inside any try; both branches return
\* _format_track_results(tracks[:limit])
SearchTracksOf(silent, fv, pl, limit, f) ==
    IF f.x = 1
    THEN Outcome(Raised, <<Call("session.search", NoPid, <<>>)>>, fv, pl)
    ELSE IF silent
    THEN Outcome(RetList(FormatTrackResults(SliceTo(SearchIndex, limit))),
                 <<Call("session.search", NoPid, <<>>)>>, fv, pl)
    ELSE LET results == FormatTrackResults(SliceTo(SearchIndex, limit))
         IN Outcome(RetList(results),
                    <<Call("session.search", NoPid, <<>>)>>, fv, pl)

SearchTracks(fv, pl, limit, f) == SearchTracksOf(FALSE, fv, pl, limit, f)

\* get_track_by_id(track_id): any exception gives None
GetTrackById(fv, pl, id, f) ==
    IF f.x = 1 \/ id \notin Range(SearchIndex)
    THEN Outcome(RetNone, <<Call("session.get_track", NoPid, <<id>>)>>, fv, pl)
    ELSE Outcome(RetDict(TrackDict(Catalog(id))),
                 <<Call("session.get_track", NoPid, <<id>>)>>, fv, pl)

\* get_playlist_by_id(playlist_id): the handle, or None on any exception.
\* found = FALSE is None; user says whether factory() gave a UserPlaylist,
\* the only handle with add and clear.
GetPlaylistById(pl, pid, r) ==
    IF r = "playlist" \/ ~pl[pid].exists
    THEN [found |-> FALSE, user |-> FALSE,
          calls |-> <<Call("session.playlist", pid, <<>>)>>]
    ELSE IF r = "factory"
    THEN [found |-> FALSE, user |-> FALSE,
          calls |-> <<Call("session.playlist", pid, <<>>),
                      Call("playlist.factory", pid, <<>>)>>]
    ELSE [found |-> TRUE, user |-> pl[pid].owned,
          calls |-> <<Call("session.playlist", pid, <<>>),
                      Call("playlist.factory", pid, <<>>)>>]

NewPid == "p3"

\* create_playlist(name, description): any exception gives None
CreatePlaylist(fv, pl, f) ==
    IF f.x = 1
    THEN Outcome(RetNone, <<Call("user.create_playlist", NoPid, <<>>)>>, fv, pl)
    ELSE Outcome(RetDict(PlaylistDict(NewPid)),
                 <<Call("user.create_playlist", NoPid, <<>>)>>, fv,
                 [pl EXCEPT ![NewPid] =
                     [exists |-> TRUE, owned |-> TRUE, tracks |-> <<>>]])

\* add_tracks_to_playlist, lines 298-306: the ids that int() accepts, in
\* order; a ValueError only skips the id
RECURSIVE IntTrackIds(_)
IntTrackIds(track_ids) ==
    IF track_ids = <<>> THEN <<>>
    ELSE (IF PyInt(Head(track_ids)).ok
          THEN <<PyInt(Head(track_ids)).val>> ELSE <<>>)
         \o IntTrackIds(Tail(track_ids))

\* AddTracksToPlaylist giving up as soon as one id does not coerce
AddTracksToPlaylist_AbortOnInvalid(fv, pl, pid, track_ids, r, a) ==
    LET h == GetPlaylistById(pl, pid, r)
        int_track_ids == IntTrackIds(track_ids)
        add == Call("playlist.add", pid, int_track_ids)
    IN IF ~h.found THEN Outcome(RetBool(FALSE), h.calls, fv, pl)
       ELSE IF Len(int_track_ids) # Len(track_ids) \/ int_track_ids = <<>>
       THEN Outcome(RetBool(FALSE), h.calls, fv, pl)
       ELSE IF ~h.user THEN Outcome(RetBool(FALSE), h.calls, fv, pl)
       ELSE IF a = "raise_none"
       THEN Outcome(RetBool(FALSE), h.calls \o <<add>>, fv, pl)
       ELSE IF a = "raise_partial"
       THEN Outcome(RetBool(FALSE), h.calls \o <<add>>, fv,
                    [pl EXCEPT ![pid].tracks = @ \o <<int_track_ids[1]>>])
       ELSE Outcome(RetBool(TRUE), h.calls \o <<add>>, fv,
                    [pl EXCEPT ![pid].tracks = @ \o int_track_ids])

\* AddTracksToPlaylist that calls playlist.add a second time after it raised
AddTracksToPlaylist_RetryOnFailure(fv, pl, pid, track_ids, r, a) ==
    LET h == GetPlaylistById(pl, pid, r)
        int_track_ids == IntTrackIds(track_ids)
        add == Call("playlist.add", pid, int_track_ids)
    IN IF ~h.found THEN Outcome(RetBool(FALSE), h.calls, fv, pl)
       ELSE IF int_track_ids = <<>> THEN Outcome(RetBool(FALSE), h.calls, fv, pl)
       ELSE IF ~h.user THEN Outcome(RetBool(FALSE), h.calls, fv, pl)
       ELSE IF a = "raise_none"
       THEN Outcome(RetBool(FALSE), h.calls \o <<add, add>>, fv, pl)
       ELSE IF a = "raise_partial"
       THEN Outcome(RetBool(FALSE), h.calls \o <<add, add>>, fv,
                    [pl EXCEPT ![pid].tracks = @ \o <<int_track_ids[1]>>])
       ELSE Outcome(RetBool(TRUE), h.calls \o <<add>>, fv,
                    [pl EXCEPT ![pid].tracks = @ \o int_track_ids])

\* AddTracksToPlaylist on handles that all have add: the batch is sent
\* whether or not the playlist is the user's
AddTracksToPlaylist_AssumesCapability(fv, pl, pid, track_ids, r, a) ==
    LET h == GetPlaylistById(pl, pid, r)
        int_track_ids == IntTrackIds(track_ids)
        add == Call("playlist.add", pid, int_track_ids)
    IN IF ~h.found THEN Outcome(RetBool(FALSE), h.calls, fv, pl)
       ELSE IF int_track_ids = <<>> THEN Outcome(RetBool(FALSE), h.calls, fv, pl)
       ELSE IF a = "raise_none"
       THEN Outcome(RetBool(FALSE), h.calls \o <<add>>, fv, pl)
       ELSE IF a = "raise_partial"
       THEN Outcome(RetBool(FALSE), h.calls \o <<add>>, fv,
                    [pl EXCEPT ![pid].tracks = @ \o <<int_track_ids[1]>>])
       ELSE Outcome(RetBool(TRUE), h.calls \o <<add>>, fv,
                    [pl EXCEPT ![pid].tracks = @ \o int_track_ids])

\* add_tracks_to_playlist(playlist_id, track_ids) with track_ids a list of
\* str.  A handle without add (a Playlist that is not the user's) raises
\* AttributeError at line 317 before anything is sent; the method's
\* except turns every exception into False.
AddTracksToPlaylist(fv, pl, pid, track_ids, r, a) ==
    LET h == GetPlaylistById(pl, pid, r)
        int_track_ids == IntTrackIds(track_ids)
        add == Call("playlist.add", pid, int_track_ids)
    IN IF ~h.found THEN Outcome(RetBool(FALSE), h.calls, fv, pl)
       ELSE IF int_track_ids = <<>> THEN Outcome(RetBool(FALSE), h.calls, fv, pl)
       ELSE IF ~h.user THEN Outcome(RetBool(FALSE), h.calls, fv, pl)
       ELSE IF a = "raise_none"
       THEN Outcome(RetBool(FALSE), h.calls \o <<add>>, fv, pl)
       ELSE IF a = "raise_partial"
       THEN Outcome(RetBool(FALSE), h.calls \o <<add>>, fv,
                    [pl EXCEPT ![pid].tracks = @ \o <<int_track_ids[1]>>])
       ELSE Outcome(RetBool(TRUE), h.calls \o <<add>>, fv,
                    [pl EXCEPT ![pid].tracks = @ \o int_track_ids])

\* RemoveEach leaving the loop at the first remove_track that raises
RECURSIVE RemoveEach_StopOnFailure(_, _, _)
RemoveEach_StopOnFailure(tracks, i, fails) ==
    IF i > Len(tracks) THEN [calls |-> <<>>, left |-> <<>>, count |-> 0]
    ELSE LET c == Call("favorites.remove_track", NoPid, <<tracks[i]>>)
         IN IF i \in fails
            THEN [calls |-> <<c>>, left |-> SubSeq(tracks, i, Len(tracks)),
                  count |-> 0]
            ELSE LET rest == RemoveEach_StopOnFailure(tracks, i + 1, fails)
                 IN [calls |-> <<c>> \o rest.calls,
                     left |-> rest.left, count |-> rest.count + 1]

\* remove_all_favorite_tracks, the loop of lines 354-364 from position i:
\* a raising remove_track leaves the track in the favorites and the loop
\* goes on.  Gives the calls made, the favorites left and success_count.
RECURSIVE RemoveEach(_, _, _)
RemoveEach(tracks, i, fails) ==
    IF i > Len(tracks) THEN [calls |-> <<>>, left |-> <<>>, count |-> 0]
    ELSE LET rest == RemoveEach(tracks, i + 1, fails)
             c == Call("favorites.remove_track", NoPid, <<tracks[i]>>)
         IN IF i \in fails
            THEN [calls |-> <<c>> \o rest.calls,
                  left |-> <<tracks[i]>> \o rest.left, count |-> rest.count]
            ELSE [calls |-> <<c>> \o rest.calls,
                  left |-> rest.left, count |-> rest.count + 1]

\* RemoveAllFavoriteTracks working from the list of an earlier fetch, every
\* track the favorites held at the start, instead of what this fetch gave
RemoveAllFavoriteTracks_StaleList(fv, pl, f) ==
    LET fetch == Call("favorites.tracks", NoPid, <<>>)
        loop == RemoveEach(<<2, 1>>, 1, f.fails)
    IN IF f.x = 1 THEN Outcome(RetBool(FALSE), <<fetch>>, fv, pl)
       ELSE IF fv = <<>> THEN Outcome(RetBool(TRUE), <<fetch>>, fv, pl)
       ELSE Outcome(RetBool(loop.count = 2), <<fetch>> \o loop.calls,
                    SelectSeq(loop.left, LAMBDA t : t \in Range(fv)), pl)

\* remove_all_favorite_tracks()
RemoveAllFavoriteTracks(fv, pl, f) ==
    LET fetch == Call("favorites.tracks", NoPid, <<>>)
        loop == RemoveEach(fv, 1, f.fails)
    IN IF f.x = 1 THEN Outcome(RetBool(FALSE), <<fetch>>, fv, pl)
       ELSE IF fv = <<>> THEN Outcome(RetBool(TRUE), <<fetch>>, fv, pl)
       ELSE Outcome(RetBool(loop.count = Len(fv)), <<fetch>> \o loop.calls,
                    loop.left, pl)

\* ClearPlaylist without the hasattr(playlist, 'clear') test: a handle
\* without clear gets its track count read and raises at clear()
ClearPlaylist_NoCapabilityCheck(fv, pl, pid, r, c) ==
    LET h == GetPlaylistById(pl, pid, r)
        num == Call("playlist.num_tracks", pid, <<>>)
        clear == Call("playlist.clear", pid, <<>>)
    IN IF ~h.found THEN Outcome(RetBool(FALSE), h.calls, fv, pl)
       ELSE IF Len(pl[pid].tracks) = 0
       THEN Outcome(RetBool(TRUE), h.calls \o <<num>>, fv, pl)
       ELSE IF ~h.user THEN Outcome(RetBool(FALSE), h.calls \o <<num>>, fv, pl)
       ELSE IF c \in {"raise", "false"}
       THEN Outcome(RetBool(FALSE), h.calls \o <<num, clear>>, fv, pl)
       ELSE Outcome(RetBool(TRUE), h.calls \o <<num, clear>>, fv,
                    [pl EXCEPT ![pid].tracks = <<>>])

\* clear_playlist(playlist_id)
ClearPlaylist(fv, pl, pid, r, c) ==
    LET h == GetPlaylistById(pl, pid, r)
        num == Call("playlist.num_tracks", pid, <<>>)
        clear == Call("playlist.clear", pid, <<>>)
    IN IF ~h.found THEN Outcome(RetBool(FALSE), h.calls, fv, pl)
       ELSE IF ~h.user THEN Outcome(RetBool(FALSE), h.calls, fv, pl)
       ELSE IF Len(pl[pid].tracks) = 0
       THEN Outcome(RetBool(TRUE), h.calls \o <<num>>, fv, pl)
       ELSE IF c = "raise"
       THEN Outcome(RetBool(FALSE), h.calls \o <<num, clear>>, fv, pl)
       ELSE IF c = "false"
       THEN Outcome(RetBool(FALSE), h.calls \o <<num, clear>>, fv, pl)
       ELSE Outcome(RetBool(TRUE), h.calls \o <<num, clear>>, fv,
                    [pl EXCEPT ![pid].tracks = <<>>])

\* ReorderPlaylist that does not look at what clear_playlist returned
ReorderPlaylist_IgnoreClearResult(fv, pl, pid, track_ids, f) ==
    LET cl == ClearPlaylist(fv, pl, pid, f.r1, f.c)
        ad == AddTracksToPlaylist(cl.fav, cl.pls, pid, track_ids, f.r2, f.a)
    IN IF track_ids = <<>>
       THEN Outcome(RetBool(TRUE), cl.calls, cl.fav, cl.pls)
       ELSE Outcome(ad.ret, cl.calls \o ad.calls, ad.fav, ad.pls)

\* ReorderPlaylist that puts the previous tracks back when the add step
\* failed after the clear
ReorderPlaylist_Rollback(fv, pl, pid, track_ids, f) ==
    LET cl == ClearPlaylist(fv, pl, pid, f.r1, f.c)
        ad == AddTracksToPlaylist(cl.fav, cl.pls, pid, track_ids, f.r2, f.a)
    IN IF ~cl.ret.b THEN Outcome(RetBool(FALSE), cl.calls, cl.fav, cl.pls)
       ELSE IF track_ids = <<>>
       THEN Outcome(RetBool(TRUE), cl.calls, cl.fav, cl.pls)
       ELSE IF ~ad.ret.b /\ pl[pid].tracks # <<>>
       THEN Outcome(RetBool(FALSE),
                    cl.calls \o ad.calls
                        \o <<Call("playlist.add", pid, pl[pid].tracks)>>,
                    ad.fav, [ad.pls EXCEPT ![pid].tracks = pl[pid].tracks])
       ELSE Outcome(ad.ret, cl.calls \o ad.calls, ad.fav, ad.pls)

\* reorder_playlist(playlist_id, track_ids)
ReorderPlaylist(fv, pl, pid, track_ids, f) ==
    LET cl == ClearPlaylist(fv, pl, pid, f.r1, f.c)
        ad == AddTracksToPlaylist(cl.fav, cl.pls, pid, track_ids, f.r2, f.a)
    IN IF ~cl.ret.b THEN Outcome(RetBool(FALSE), cl.calls, cl.fav, cl.pls)
       ELSE IF track_ids = <<>>
       THEN Outcome(RetBool(TRUE), cl.calls, cl.fav, cl.pls)
       ELSE Outcome(ad.ret, cl.calls \o ad.calls, ad.fav, ad.pls)

\* main.py, the `playlist create` command after a successful connect():
\* create_playlist, then line 219 indexes the result (TypeError when it is
\* None), then the --tracks ids are added and, with a --search query, the
\* ids of the search results as well.  The command returns nothing.
CliCreate(fv, pl, track_ids, search, f) ==
    LET cr == CreatePlaylist(fv, pl, f)
        a1 == IF track_ids # <<>>
              THEN AddTracksToPlaylist(cr.fav, cr.pls, NewPid, track_ids,
                                       f.r1, f.a)
              ELSE Outcome(RetNone, <<>>, cr.fav, cr.pls)
        sr == SearchTracks(a1.fav, a1.pls, 50, [x |-> 0])
        found == [i \in 1..Len(sr.ret.items) |-> PyStr(sr.ret.items[i].id[1])]
        a2 == IF found # <<>>
              THEN AddTracksToPlaylist(a1.fav, a1.pls, NewPid, found, "ok", "ok")
              ELSE Outcome(RetNone, <<>>, a1.fav, a1.pls)
    IN IF cr.ret = RetNone THEN Outcome(Raised, cr.calls, cr.fav, cr.pls)
       ELSE IF ~search
       THEN Outcome(RetNone, cr.calls \o a1.calls, a1.fav, a1.pls)
       ELSE Outcome(RetNone, cr.calls \o a1.calls \o sr.calls \o a2.calls,
                    a2.fav, a2.pls)

\* main.py, import_csv_to_playlist once the CSV gave a non-empty list of
\* tracks and a name was entered: create_playlist, return if it gave None,
\* else add str(track["id"]) of every track
ImportCsvToPlaylist(fv, pl, track_ids, f) ==
    LET cr == CreatePlaylist(fv, pl, f)
        ad == AddTracksToPlaylist(cr.fav, cr.pls, NewPid, track_ids, f.r1, f.a)
    IN IF cr.ret = RetNone THEN Outcome(RetNone, cr.calls, cr.fav, cr.pls)
       ELSE Outcome(RetNone, cr.calls \o ad.calls, ad.fav, ad.pls)

----------------------------------------------------------------------------
(* authenticate() and the TidalExtractor facade (auth.py, core.py)         *)

\* how the OAuth login goes: login_oauth() raises, future.result() raises
\* or times out, check_login() is False or raises, or the login succeeds
AuthOutcomes ==
    {"ok", "login_raises", "future_raises", "check_false", "check_raises"}

\* Authenticate that returns the session as soon as the future resolved,
\* whatever check_login says
Authenticate_IgnoresCheck(n, outcome) ==
    IF outcome = "login_raises"
    THEN [session |-> 0, calls |-> <<Call("session.login_oauth", NoPid, <<>>)>>]
    ELSE IF outcome = "future_raises"
    THEN [session |-> 0, calls |-> <<Call("session.login_oauth", NoPid, <<>>),
                                    Call("future.result", NoPid, <<>>)>>]
    ELSE [session |-> n,
          calls |-> <<Call("session.login_oauth", NoPid, <<>>),
                      Call("future.result", NoPid, <<>>),
                      Call("session.check_login", NoPid, <<>>)>>]

\* authenticate(silent): n names the Session() built at line 23, which is
\* only the construction of the client object and makes no request; the
\* result is that session, or 0 for None
Authenticate(n, outcome) ==
    IF outcome = "login_raises"
    THEN [session |-> 0, calls |-> <<Call("session.login_oauth", NoPid, <<>>)>>]
    ELSE IF outcome = "future_raises"
    THEN [session |-> 0, calls |-> <<Call("session.login_oauth", NoPid, <<>>),
                                    Call("future.result", NoPid, <<>>)>>]
    ELSE [session |-> IF outcome = "ok" THEN n ELSE 0,
          calls |-> <<Call("session.login_oauth", NoPid, <<>>),
                      Call("future.result", NoPid, <<>>),
                      Call("session.check_login", NoPid, <<>>)>>]

\* TidalExtractor.connect(): self.session is assigned whatever
\* authenticate returned; self.collector only when that is a session
Connect(sess, coll, n, outcome) ==
    LET a == Authenticate(n + 1, outcome)
    IN [ok |-> a.session # 0,
        session |-> a.session,
        collector |-> IF a.session # 0 THEN a.session ELSE coll,
        authCalls |-> n + 1,
        calls |-> a.calls]

\* LazyConnect that goes on to the collector although connect() failed
LazyConnect_IgnoreFailure(sess, coll, n, outcome) ==
    IF coll # 0
    THEN [go |-> TRUE, session |-> sess, collector |-> coll, authCalls |-> n,
          calls |-> <<>>]
    ELSE LET c == Connect(sess, coll, n, outcome)
         IN [go |-> TRUE, session |-> c.session, collector |-> c.collector,
             authCalls |-> c.authCalls, calls |-> c.calls]

\* LazyConnect testing `if not self.session` instead of self.collector
LazyConnect_TestsSession(sess, coll, n, outcome) ==
    IF sess # 0
    THEN [go |-> TRUE, session |-> sess, collector |-> coll, authCalls |-> n,
          calls |-> <<>>]
    ELSE LET c == Connect(sess, coll, n, outcome)
         IN [go |-> c.ok, session |-> c.session, collector |-> c.collector,
             authCalls |-> c.authCalls, calls |-> c.calls]

\* The guard shared by get_favorite_tracks, get_playlists,
\* get_playlist_tracks and empty_favorites:
\*     if not self.collector:
\*         if not self.connect(): return <empty>
\* go says whether the call reaches self.collector.<method>()
LazyConnect(sess, coll, n, outcome) ==
    IF coll # 0
    THEN [go |-> TRUE, session |-> sess, collector |-> coll, authCalls |-> n,
          calls |-> <<>>]
    ELSE LET c == Connect(sess, coll, n, outcome)
         IN [go |-> c.ok, session |-> c.session, collector |-> c.collector,
             authCalls |-> c.authCalls, calls |-> c.calls]

----------------------------------------------------------------------------
(* Inputs of the Collector and the Extractor *)

Pids == {"p1", "p2", "p3"}

TrackIds == {1, 2}

\* the strings handed over as track ids
IdStrings == { <<"1">>, <<"2">>, <<"x">> }
IdLists == SeqsUpTo(IdStrings, MaxIds)

FavoriteLists ==
    {l \in SeqsUpTo(TrackIds, Cardinality(TrackIds)) :
        \A i, j \in 1..Len(l) : i # j => l[i] # l[j]}

NoFaults ==
    [x |-> 0, r1 |-> "ok", c |-> "ok", r2 |-> "ok", a |-> "ok", fails |-> {}]

ResolveFaults == {"ok", "playlist", "factory"}
ClearFaults == {"ok", "false", "raise"}
AddFaults == {"ok", "raise_none", "raise_partial"}

\* fault plans of reorder_playlist: a call after the first failure is not
\* reached, so its entry stays "ok"
ReorderFaults ==
    {f \in [x : {0}, r1 : ResolveFaults, c : ClearFaults, r2 : ResolveFaults,
            a : AddFaults, fails : {{}}] :
        /\ f.r1 # "ok" => f.c = "ok" /\ f.r2 = "ok" /\ f.a = "ok"
        /\ f.c # "ok" => f.r2 = "ok" /\ f.a = "ok"
        /\ f.r2 # "ok" => f.a = "ok"}

AddFaultPlans ==
    {f \in [x : {0}, r1 : ResolveFaults, c : {"ok"}, r2 : {"ok"},
            a : AddFaults, fails : {{}}] : f.r1 # "ok" => f.a = "ok"}

ClearFaultPlans ==
    {f \in [x : {0}, r1 : ResolveFaults, c : ClearFaults, r2 : {"ok"},
            a : {"ok"}, fails : {{}}] : f.r1 # "ok" => f.c = "ok"}

NoOp == [name |-> "none", pid |-> NoPid, ids |-> <<>>, limit |-> 0,
         f |-> NoFaults, auth |-> "ok", silent |-> FALSE]

MkOp(name, pid, ids, limit, f, auth) ==
    [name |-> name, pid |-> pid, ids |-> ids, limit |-> limit, f |-> f,
     auth |-> auth, silent |-> FALSE]

\* a call on a collector built with TidalCollector(session, silent)
MkOpOf(silent, name, pid, limit, f) ==
    [MkOp(name, pid, <<>>, limit, f, "ok") EXCEPT !.silent = silent]

NoPre == [fav |-> <<>>, pls |-> <<>>, session |-> 0, collector |-> 0,
          authCalls |-> 0]

InitialPlaylists ==
    [p \in Pids |->
        IF p = "p1" THEN [exists |-> TRUE, owned |-> TRUE, tracks |-> <<>>]
        ELSE IF p = "p2"
        THEN [exists |-> TRUE, owned |-> FALSE, tracks |-> <<2, 1>>]
        ELSE [exists |-> FALSE, owned |-> FALSE, tracks |-> <<>>]]

\* no main.py process runs
NoStep == [action |-> "none", go |-> "cancel", export |-> FALSE, x |-> 0,
           kind |-> "none", confirm |-> "no", enter |-> "enter"]

CliUnused ==
    /\ command = "none" /\ cliPc = "unused" /\ exitCode = <<>>
    /\ session_active = FALSE /\ exit_requested = FALSE
    /\ issued = <<>> /\ escaped = "none" /\ step = NoStep

\* the Tidal side when only the CSV codec runs
TidalUnused ==
    /\ fav = <<>> /\ pls = InitialPlaylists
    /\ session = 0 /\ collector = 0 /\ authCalls = 0
    /\ op = NoOp /\ ret = RetNone /\ calls = <<>> /\ pre = NoPre
    /\ served = 0 /\ pc = "idle"

\* format_duration when it is not what runs
FmtUnused == seconds = <<>> /\ formatted = <<>>

\* the CSV side when only the Tidal side runs
CsvUnused ==
    /\ fileExists = FALSE /\ fileLines = <<>>
    /\ savedTracks = <<>> /\ savedFields = None
    /\ loadResult = [status |-> "none", tracks |-> <<>>, names |-> {}]
    /\ csvPc = "start"

----------------------------------------------------------------------------
(* Inputs of the CSV codec *)

\* artist names: non-empty, possibly containing a comma ("Tyler, The Creator")
Names == { <<"a">>, <<"a", ",", " ", "b">> }
ArtistLists == SeqsUpTo(Names, MaxArtists)

\* id, title, album and duration of the tracks handed to the writer
ScalarPool ==
    << [id |-> Some(7), title |-> <<"a">>, album |-> <<>>, duration |-> None],
       [id |-> Some(12), title |-> <<"a", ",", " ">>, album |-> <<"a">>,
        duration |-> Some(0)],
       [id |-> Some(305), title |-> <<" ", "a">>, album |-> <<"a", ",", "a">>,
        duration |-> Some(75)] >>

\* the tracks of a collection are distinct: the i-th one of a list that
\* starts at entry `first` of the pool
ScalarAt(first, i) == ScalarPool[((first + i - 2) % Len(ScalarPool)) + 1]

MkTrack(s, ar) ==
    [id |-> s.id, title |-> s.title, artists |-> ar, album |-> s.album,
     duration |-> s.duration]

\* the list of k tracks that starts at entry `first` of the pool, with
\* the artists ars[i]
TrackSeq(k, first, ars) ==
    [i \in 1..k |-> MkTrack(ScalarAt(first, i), ars[i])]

\* the artists of the tracks written with an explicit field list
FieldArtists == { <<>>, << <<"a">>, <<"a">> >> }

\* every non-empty list of distinct field names, in every order
FieldLists ==
    {fs \in SeqsUpTo(FieldNames, Cardinality(FieldNames)) :
        fs # <<>> /\ \A i, j \in 1..Len(fs) : i # j => fs[i] # fs[j]}

\* files that were not produced by the writer
ForeignHeaders ==
    { <<>>, <<"id">>, <<"title">>, <<"album", "id">>, <<"ID", "title">>,
      <<"artists", "album", "duration">>,
      <<"id", "title">>, <<"title", "id", "duration">>,
      <<"id", "title", "artists">>, <<"id", "id", "title">> }
ForeignCells == { <<>>, <<"7">>, <<"x">>, <<"a", ",", " ", "a">> }
ForeignRows == SeqsUpTo(ForeignCells, MaxCols)
\* the rows below the first one: a blank line or one more record
LaterRows == { <<>>, << <<"1", "2">>, <<"a">> >> }
ForeignFiles ==
    {<<>>} \cup
    {<<h>> : h \in ForeignHeaders} \cup
    {<<h, r>> \o rows : h \in ForeignHeaders, r \in ForeignRows,
                         rows \in SeqsUpTo(LaterRows, MaxRows - 1)}

\* what the path may hold before the writer is called
PriorFiles ==
    { [exists |-> FALSE, lines |-> <<>>],
      [exists |-> TRUE, lines |-> <<>>],
      [exists |-> TRUE, lines |-> << <<"id", "title">>, << <<"7">>, <<"x">> >> >>] }

NoLoad == [status |-> "none", tracks |-> <<>>, names |-> {}]

----------------------------------------------------------------------------
(* The caller of the codec: one write (or a file from elsewhere), then a   *)
(* read of the same path.                                                  *)

CsvInit ==
    /\ \E f \in PriorFiles : fileExists = f.exists /\ fileLines = f.lines
    /\ savedTracks = <<>>
    /\ savedFields = None
    /\ loadResult = NoLoad
    /\ csvPc = "start"
    /\ TidalUnused
    /\ FmtUnused
    /\ CliUnused

\* TrackFormatter.save_tracks_to_file(tracks, path, fields)
CsvSave(tracks, fields) ==
    /\ LET f == SaveTracksToFile(tracks, fields, fileExists, fileLines)
       IN fileExists' = f.exists /\ fileLines' = f.lines
    /\ savedTracks' = tracks
    /\ savedFields' = fields
    /\ csvPc' = "saved"
    /\ UNCHANGED loadResult
    /\ UNCHANGED <<tidalVars, fmtVars, cliVars>>

CsvSaveDefault ==
    /\ csvPc = "start"
    /\ \E k \in 0..MaxTracks :
         \E first \in 1..Len(ScalarPool), ars \in [1..k -> ArtistLists] :
            CsvSave(TrackSeq(k, first, ars), None)

CsvSaveFields ==
    /\ csvPc = "start"
    /\ \E fs \in FieldLists, k \in 0..MaxTracks :
         \E first \in 1..Len(ScalarPool), ars \in [1..k -> FieldArtists] :
            CsvSave(TrackSeq(k, first, ars), Some(fs))

\* tracks that lack keys or hold None, as dicts built elsewhere may
PartialTracks ==
    << [id |-> Some(123), title |-> <<"a">>],
       [id |-> Some(12), title |-> NoneStr,
        artists |-> << <<"a">>, <<"b">> >>, album |-> <<"a">>,
        duration |-> None],
       [id |-> None, title |-> <<"a", ",", " ">>, artists |-> <<>>,
        duration |-> Some(0), genre |-> <<"b">>] >>

\* field lists with a repeated name and with a name no track has
ExtraFieldLists ==
    { DefaultFields, <<"genre">>, <<"title", "id", "title">>,
      <<"duration", "artists", "genre", "album">> }

\* save_tracks_to_file of tracks with missing keys
CsvSavePartial ==
    /\ csvPc = "start"
    /\ \E fs \in ExtraFieldLists, k \in 1..MaxTracks :
         \E first \in 1..Len(PartialTracks) :
            LET ts == [i \in 1..k |->
                         PartialTracks[((first + i - 2) % Len(PartialTracks)) + 1]]
                f == SaveTracksToFile(ts, Some(fs), fileExists, fileLines)
            IN /\ fileExists' = f.exists /\ fileLines' = f.lines
               /\ savedTracks' = ts
               /\ savedFields' = Some(fs)
    /\ csvPc' = "saved_partial"
    /\ UNCHANGED loadResult
    /\ UNCHANGED <<tidalVars, fmtVars, cliVars>>

\* another program leaves a CSV file at the path
CsvForeign ==
    /\ csvPc = "start"
    /\ \E ls \in ForeignFiles : fileExists' = TRUE /\ fileLines' = ls
    /\ csvPc' = "foreign"
    /\ UNCHANGED <<savedTracks, savedFields, loadResult>>
    /\ UNCHANGED <<tidalVars, fmtVars, cliVars>>

\* TrackFormatter.load_tracks_from_csv(path)
CsvLoad ==
    /\ csvPc \in {"start", "saved", "saved_partial", "foreign"}
    /\ loadResult' = LoadTracksFromCsv(fileExists, fileLines)
    /\ csvPc' = IF csvPc = "saved" THEN "read_saved"
                ELSE IF csvPc = "saved_partial" THEN "read_partial"
                ELSE IF csvPc = "foreign" THEN "read_foreign" ELSE "read_start"
    /\ UNCHANGED <<fileExists, fileLines, savedTracks, savedFields>>
    /\ UNCHANGED <<tidalVars, fmtVars, cliVars>>

CsvNext ==
    CsvSaveDefault \/ CsvSaveFields \/ CsvSavePartial \/ CsvForeign \/ CsvLoad

SpecCsv == CsvInit /\ [][CsvNext]_vars

----------------------------------------------------------------------------
(* The caller of format_duration: any number of calls, one argument each   *)

\* None, every duration up to MaxSeconds, the hour mark and below zero
DurationInputs ==
    {None} \cup {Some(s) : s \in 0..MaxSeconds}
      \cup {Some(3599), Some(3600), Some(3661), Some(0 - 1), Some(0 - 61)}

FmtInit ==
    /\ seconds = <<>> /\ formatted = <<>>
    /\ CsvUnused
    /\ TidalUnused
    /\ CliUnused

\* TrackFormatter.format_duration(seconds)
FmtFormatDuration ==
    /\ \E d \in DurationInputs :
         /\ seconds' = d
         /\ formatted' = FormatDuration(d)
    /\ UNCHANGED <<csvVars, tidalVars, cliVars>>

FmtNext == FmtFormatDuration

SpecFormat == FmtInit /\ [][FmtNext]_vars

----------------------------------------------------------------------------
(* The Collector: a TidalCollector built on session 1, called method by    *)
(* method; the caller looks at the result before the next call.            *)

Snapshot ==
    [fav |-> fav, pls |-> pls, session |-> session, collector |-> collector,
     authCalls |-> authCalls]

\* the user's own playlists hold at most MaxPlaylistLen tracks between them
Fits(pl) == Len(pl["p1"].tracks) + Len(pl[NewPid].tracks) <= MaxPlaylistLen

\* a Collector method returns (or raises) with outcome o
CollDo(opRec, o) ==
    /\ Fits(o.pls)
    /\ fav' = o.fav /\ pls' = o.pls
    /\ op' = opRec /\ ret' = o.ret /\ calls' = o.calls
    /\ pre' = Snapshot
    /\ served' = collector
    /\ pc' = "returned"
    /\ UNCHANGED <<session, collector, authCalls>>
    /\ UNCHANGED <<csvVars, fmtVars, cliVars>>

\* how many upstream calls of that name the method made
Made(cs, name) == Cardinality({i \in 1..Len(cs) : cs[i].call = name})

\* session.playlist fails by itself for a playlist that does not exist,
\* and no later call is made on it
FaultsPossible(f, pl, pid) == ~pl[pid].exists => f = NoFaults

\* a fault is planned only for an upstream call that the method makes
FaultsReached(f, cs) ==
    /\ f.r1 = "factory" => Made(cs, "playlist.factory") >= 1
    /\ f.c # "ok" => Made(cs, "playlist.clear") >= 1
    /\ f.r2 = "playlist" => Made(cs, "session.playlist") >= 2
    /\ f.r2 = "factory" => Made(cs, "playlist.factory") >= 2
    /\ f.a # "ok" => Made(cs, "playlist.add") >= 1

CollInit ==
    /\ CsvUnused
    /\ FmtUnused
    /\ CliUnused
    /\ fav \in {<<>>, <<2, 1>>}
    /\ pls = InitialPlaylists
    /\ session = 1 /\ collector = 1 /\ authCalls = 1
    /\ op = NoOp /\ ret = RetNone /\ calls = <<>> /\ pre = NoPre
    /\ served = 0 /\ pc = "idle"

CollGetFavoriteTracks ==
    /\ pc = "idle"
    /\ \E x \in {0, 1}, silent \in BOOLEAN :
         LET f == [NoFaults EXCEPT !.x = x]
         IN CollDo(MkOpOf(silent, "get_favorite_tracks", NoPid, 0, f),
                   GetFavoriteTracksOf(silent, fav, pls, f))

CollGetPlaylists ==
    /\ pc = "idle"
    /\ \E x \in {0, 1} :
         LET f == [NoFaults EXCEPT !.x = x]
         IN CollDo(MkOp("get_playlists", NoPid, <<>>, 0, f, "ok"),
                   GetPlaylists(fav, pls, f))

CollGetPlaylistTracks ==
    /\ pc = "idle"
    /\ \E pid \in Pids, x \in {0, 1, 2}, silent \in BOOLEAN :
         LET f == [NoFaults EXCEPT !.x = x]
         IN CollDo(MkOpOf(silent, "get_playlist_tracks", pid, 0, f),
                   GetPlaylistTracksOf(silent, fav, pls, pid, f))

CollSearchTracks ==
    /\ pc = "idle"
    /\ \E limit \in MinLimit..MaxLimit, x \in {0, 1}, silent \in BOOLEAN :
         LET f == [NoFaults EXCEPT !.x = x]
         IN CollDo(MkOpOf(silent, "search_tracks", NoPid, limit, f),
                   SearchTracksOf(silent, fav, pls, limit, f))

CollGetTrackById ==
    /\ pc = "idle"
    /\ \E id \in {1, 9}, x \in {0, 1} :
         LET f == [NoFaults EXCEPT !.x = x]
         IN CollDo(MkOp("get_track_by_id", NoPid, <<PyStr(id)>>, 0, f, "ok"),
                   GetTrackById(fav, pls, id, f))

CollGetPlaylistById ==
    /\ pc = "idle"
    /\ \E pid \in Pids, r \in ResolveFaults :
         LET f == [NoFaults EXCEPT !.r1 = r]
             h == GetPlaylistById(pls, pid, r)
         IN CollDo(MkOp("get_playlist_by_id", pid, <<>>, 0, f, "ok"),
                   Outcome(IF h.found THEN RetDict(PlaylistDict(pid))
                           ELSE RetNone, h.calls, fav, pls))

CollCreatePlaylist ==
    /\ pc = "idle"
    /\ \E x \in {0, 1} :
         /\ x = 0 => ~pls[NewPid].exists
         /\ LET f == [NoFaults EXCEPT !.x = x]
            IN CollDo(MkOp("create_playlist", NoPid, <<>>, 0, f, "ok"),
                      CreatePlaylist(fav, pls, f))

CollAddTracksToPlaylist ==
    /\ pc = "idle"
    /\ \E pid \in Pids, f \in AddFaultPlans :
         /\ FaultsPossible(f, pls, pid)
         /\ \E ids \in IdLists :
            \E o \in {AddTracksToPlaylist(fav, pls, pid, ids, f.r1, f.a)} :
            /\ FaultsReached(f, o.calls)
            /\ CollDo(MkOp("add_tracks_to_playlist", pid, ids, 0, f, "ok"), o)

CollRemoveAllFavoriteTracks ==
    /\ pc = "idle"
    /\ \E x \in {0, 1}, fails \in SUBSET (1..Len(fav)) :
         /\ x = 1 => fails = {}
         /\ LET f == [NoFaults EXCEPT !.x = x, !.fails = fails]
            IN CollDo(MkOp("remove_all_favorite_tracks", NoPid, <<>>, 0, f, "ok"),
                      RemoveAllFavoriteTracks(fav, pls, f))

CollClearPlaylist ==
    /\ pc = "idle"
    /\ \E pid \in Pids, f \in ClearFaultPlans :
         /\ FaultsPossible(f, pls, pid)
         /\ \E o \in {ClearPlaylist(fav, pls, pid, f.r1, f.c)} :
            /\ FaultsReached(f, o.calls)
            /\ CollDo(MkOp("clear_playlist", pid, <<>>, 0, f, "ok"), o)

CollReorderPlaylist ==
    /\ pc = "idle"
    /\ \E pid \in Pids, f \in ReorderFaults :
         /\ FaultsPossible(f, pls, pid)
         /\ \E ids \in IdLists :
            \E o \in {ReorderPlaylist(fav, pls, pid, ids, f)} :
            /\ FaultsReached(f, o.calls)
            /\ CollDo(MkOp("reorder_playlist", pid, ids, 0, f, "ok"), o)

\* the commands of main.py, which call Collector methods
CommandNames == {"cli_create", "import_csv"}

\* fault plans of a command that creates a playlist and adds to it
CreateFaultPlans ==
    {f \in [x : {0, 1}, r1 : ResolveFaults, c : {"ok"}, r2 : {"ok"},
            a : AddFaults, fails : {{}}] :
        /\ f.x = 1 => f.r1 = "ok" /\ f.a = "ok"
        /\ f.r1 # "ok" => f.a = "ok"}

\* `playlist create NAME [-t ID]... [-s QUERY]`; op.limit is the limit of
\* the search made for the query (0: no query)
CollCliCreate ==
    /\ pc = "idle"
    /\ ~pls[NewPid].exists
    /\ \E f \in CreateFaultPlans, ids \in IdLists, search \in BOOLEAN :
         \E o \in {CliCreate(fav, pls, ids, search, f)} :
            /\ FaultsReached(f, o.calls)
            /\ f.r1 # "ok" => Made(o.calls, "session.playlist") >= 1
            /\ CollDo(MkOp("cli_create", NewPid, ids,
                           IF search THEN 50 ELSE 0, f, "ok"), o)

\* the interactive "import CSV to playlist"
CollImportCsv ==
    /\ pc = "idle"
    /\ ~pls[NewPid].exists
    /\ \E f \in CreateFaultPlans, ids \in IdLists \ {<<>>} :
         \E o \in {ImportCsvToPlaylist(fav, pls, ids, f)} :
            /\ FaultsReached(f, o.calls)
            /\ f.r1 # "ok" => Made(o.calls, "session.playlist") >= 1
            /\ CollDo(MkOp("import_csv", NewPid, ids, 0, f, "ok"), o)

\* the caller has seen the result
Return ==
    /\ pc = "returned"
    /\ pc' = "idle"
    /\ op' = NoOp /\ ret' = RetNone /\ calls' = <<>> /\ pre' = NoPre
    /\ served' = 0
    /\ UNCHANGED <<fav, pls, session, collector, authCalls>>
    /\ UNCHANGED <<csvVars, fmtVars, cliVars>>

CollNext ==
    \/ CollGetFavoriteTracks \/ CollGetPlaylists \/ CollGetPlaylistTracks
    \/ CollSearchTracks \/ CollGetTrackById \/ CollGetPlaylistById
    \/ CollCreatePlaylist \/ CollAddTracksToPlaylist
    \/ CollRemoveAllFavoriteTracks \/ CollClearPlaylist
    \/ CollReorderPlaylist \/ CollCliCreate \/ CollImportCsv \/ Return

SpecCollector == CollInit /\ [][CollNext]_vars

----------------------------------------------------------------------------
(* The Extractor: a fresh TidalExtractor, on which connect() and the data  *)
(* calls are made in any order.                                            *)

DataCalls ==
    {"get_favorite_tracks", "get_playlists", "get_playlist_tracks",
     "empty_favorites"}

\* what a data call returns when connect() fails
EmptyResult(name) ==
    IF name = "empty_favorites" THEN RetBool(FALSE) ELSE RetList(<<>>)

\* self.collector.<method>() behind a data call
Delegate(name, fv, pl, pid, f) ==
    IF name = "get_favorite_tracks" THEN GetFavoriteTracks(fv, pl, f)
    ELSE IF name = "get_playlists" THEN GetPlaylists(fv, pl, f)
    ELSE IF name = "get_playlist_tracks" THEN GetPlaylistTracks(fv, pl, pid, f)
    ELSE RemoveAllFavoriteTracks(fv, pl, f)

ExtInit ==
    /\ CsvUnused
    /\ FmtUnused
    /\ CliUnused
    /\ fav \in FavoriteLists
    /\ pls = InitialPlaylists
    /\ session = 0 /\ collector = 0 /\ authCalls = 0
    /\ op = NoOp /\ ret = RetNone /\ calls = <<>> /\ pre = NoPre
    /\ served = 0 /\ pc = "idle"

\* TidalExtractor.connect()
ExtConnect ==
    /\ pc = "idle"
    /\ authCalls < MaxAuth
    /\ \E outcome \in AuthOutcomes :
         LET c == Connect(session, collector, authCalls, outcome)
         IN /\ session' = c.session
            /\ collector' = c.collector
            /\ authCalls' = c.authCalls
            /\ op' = MkOp("connect", NoPid, <<>>, 0, NoFaults, outcome)
            /\ ret' = RetBool(c.ok)
            /\ calls' = c.calls
    /\ pre' = Snapshot
    /\ served' = 0
    /\ pc' = "returned"
    /\ UNCHANGED <<fav, pls>>
    /\ UNCHANGED <<csvVars, fmtVars, cliVars>>

\* one of TidalExtractor.get_favorite_tracks, get_playlists,
\* get_playlist_tracks, empty_favorites
ExtCall(name, pid, f, outcome) ==
    LET lc == LazyConnect(session, collector, authCalls, outcome)
        o == Delegate(name, fav, pls, pid, f)
    IN /\ lc.authCalls <= MaxAuth
       /\ session' = lc.session
       /\ collector' = lc.collector
       /\ authCalls' = lc.authCalls
       /\ op' = MkOp(name, pid, <<>>, 0, f, outcome)
       /\ ret' = IF lc.go THEN o.ret ELSE EmptyResult(name)
       /\ calls' = IF lc.go THEN lc.calls \o o.calls ELSE lc.calls
       /\ fav' = IF lc.go THEN o.fav ELSE fav
       /\ pls' = IF lc.go THEN o.pls ELSE pls
       /\ served' = IF lc.go THEN lc.collector ELSE 0
       /\ pre' = Snapshot
       /\ pc' = "returned"
       /\ UNCHANGED <<csvVars, fmtVars, cliVars>>

\* the login outcomes that matter: none is consulted once a collector exists
AuthChoices == IF collector # 0 THEN {"ok"} ELSE AuthOutcomes

ExtGetFavoriteTracks ==
    /\ pc = "idle"
    /\ \E outcome \in AuthChoices, x \in {0, 1} :
         ExtCall("get_favorite_tracks", NoPid, [NoFaults EXCEPT !.x = x],
                 outcome)

ExtGetPlaylists ==
    /\ pc = "idle"
    /\ \E outcome \in AuthChoices, x \in {0, 1} :
         ExtCall("get_playlists", NoPid, [NoFaults EXCEPT !.x = x], outcome)

ExtGetPlaylistTracks ==
    /\ pc = "idle"
    /\ \E outcome \in AuthChoices, pid \in Pids, x \in {0, 1, 2} :
         ExtCall("get_playlist_tracks", pid, [NoFaults EXCEPT !.x = x],
                 outcome)

ExtEmptyFavorites ==
    /\ pc = "idle"
    /\ \E outcome \in AuthChoices, x \in {0, 1},
          fails \in SUBSET (1..Len(fav)) :
         /\ x = 1 => fails = {}
         /\ ExtCall("empty_favorites", NoPid,
                    [NoFaults EXCEPT !.x = x, !.fails = fails], outcome)

ExtNext ==
    \/ ExtConnect \/ ExtGetFavoriteTracks \/ ExtGetPlaylists
    \/ ExtGetPlaylistTracks \/ ExtEmptyFavorites \/ Return

SpecExtractor == ExtInit /\ [][ExtNext]_vars

----------------------------------------------------------------------------
(* main.py: the click commands and the interactive session.  A command or  *)
(* a menu handler runs against the upstream account and the one CSV path;  *)
(* what it prints is not part of the state.                                *)
(*   kind    how the code ended: "return", or the exception that left it   *)
(*   issued  the Extractor and Collector methods it called, in order       *)
(*   tracks  the track dicts it has collected so far                       *)

Ran(kind, is, cs, fv, pl, ex, ln, ts) ==
    [kind |-> kind, issued |-> is, calls |-> cs, fav |-> fv, pls |-> pl,
     exists |-> ex, lines |-> ln, tracks |-> ts]

\* the next Extractor or Collector method call of a handler that is still
\* running: an exception of the method leaves the handler
Then(h, name, o) ==
    Ran(IF o.ret.kind = "raised" THEN "Exception" ELSE "return",
        h.issued \o <<name>>, h.calls \o o.calls, o.fav, o.pls,
        h.exists, h.lines,
        IF o.ret.kind = "list" /\ name # "get_playlists"
        THEN h.tracks \o o.ret.items ELSE h.tracks)

\* `for playlist in playlists: extractor.get_playlist_tracks(playlist["id"])`
RECURSIVE ReadEach(_, _)
ReadEach(h, own) ==
    IF own = <<>> \/ h.kind # "return" THEN h
    ELSE ReadEach(Then(h, "get_playlist_tracks",
                       GetPlaylistTracks(h.fav, h.pls, Head(own), [x |-> 0])),
                  Tail(own))

\* extractor.save_tracks(tracks, path): TrackFormatter.save_tracks_to_file
\* with the default fields
SaveTracks(h, tracks) ==
    LET w == SaveTracksToFile(tracks, None, h.exists, h.lines)
    IN [h EXCEPT !.exists = w.exists, !.lines = w.lines,
                 !.issued = @ \o <<"save_tracks">>]

\* the --from-csv branch of favorites, list_playlist and search: a file
\* that does not load ends the process with sys.exit(1)
FromCsv(h) ==
    IF LoadTracksFromCsv(h.exists, h.lines).status # "ok"
    THEN [h EXCEPT !.kind = "SystemExit1"]
    ELSE h

\* str(track["id"]) of the tracks loaded from a CSV
IdTexts(tracks) ==
    [i \in 1..Len(tracks) |->
        IF tracks[i].id = None THEN NoneStr ELSE PyStr(tracks[i].id[1])]

\* The body of a click command after its connect() succeeded.
\*   a.x = 1: the first upstream read (or create) raises
\*   a.go: the user confirms (empty_favorites without --force)
\*   a.pid, a.ids, a.search: the command's arguments
CommandBody(cmd, h, a) ==
    LET f == [NoFaults EXCEPT !.x = a.x]
        favs == Then(h, "get_favorite_tracks", GetFavoriteTracks(h.fav, h.pls, f))
        lists == Then(h, "get_playlists", GetPlaylists(h.fav, h.pls, f))
        own == OwnedOf(h.pls, PlaylistOrder)
    IN IF cmd \in {"favorites", "print_all"} THEN favs
       ELSE IF cmd = "playlists" THEN lists
       ELSE IF cmd = "list_playlist"
       THEN Then(h, "get_playlist_tracks",
                 GetPlaylistTracks(h.fav, h.pls, a.pid, f))
       ELSE IF cmd = "create"
       THEN Then(h, "create_playlist",
                 CliCreate(h.fav, h.pls, a.ids, a.search, f))
       ELSE IF cmd = "add"
       THEN Then(h, "add_tracks_to_playlist",
                 AddTracksToPlaylist(h.fav, h.pls, a.pid, a.ids, "ok", "ok"))
       ELSE IF cmd = "all_playlists"
       THEN (IF lists.kind # "return" \/ own = <<>> THEN lists
             ELSE LET all == ReadEach(lists, own)
                      named == [i \in 1..Len(all.tracks) |->
                                  [k \in DOMAIN all.tracks[i] \cup {"playlist"} |->
                                     IF k = "playlist" THEN <<"p">>
                                     ELSE all.tracks[i][k]]]
                  IN IF all.kind # "return" \/ all.tracks = <<>> THEN all
                     ELSE SaveTracks(all, named))
       ELSE IF cmd = "search"
       THEN (IF favs.kind # "return" THEN favs
             ELSE LET ls == Then(favs, "get_playlists",
                                 GetPlaylists(favs.fav, favs.pls, [x |-> 0]))
                  IN ReadEach(ls, own))
       ELSE \* empty_favorites
            IF favs.kind # "return" \/ favs.tracks = <<>> \/ ~a.go THEN favs
            ELSE Then(favs, "empty_favorites",
                      RemoveAllFavoriteTracks(favs.fav, favs.pls, NoFaults))

\* the click commands of main.py that talk to Tidal
TidalCommands ==
    {"favorites", "playlists", "list_playlist", "create", "add",
     "all_playlists", "search", "print_all", "empty_favorites", "interactive"}

\* Startup that enters the command although connect() failed
Startup_IgnoresFailure(cmd, sess, coll, n, outcome) ==
    LET c == Connect(sess, coll, n, outcome)
    IN [c EXCEPT !.ok = TRUE]

\* The head of every command that talks to Tidal:
\*     extractor = TidalExtractor()
\*     if not extractor.connect(): sys.exit(1)
\* ok = FALSE is the sys.exit(1)
Startup(cmd, sess, coll, n, outcome) == Connect(sess, coll, n, outcome)

\* click's standalone mode around a command: a return becomes sys.exit(0);
\* EOFError and KeyboardInterrupt are turned into Abort and sys.exit(1)
\* where click catches them, and otherwise leave cli() as they are
Escapes(kind) ==
    IF kind = "return" THEN {"SystemExit0"}
    ELSE IF kind \in {"KeyboardInterrupt", "EOFError"}
    THEN {kind, "SystemExit1"}
    ELSE {kind}

\* The outermost boundary, main.py 1007-1014 (cli.py 121-130 is the same):
\*     try: cli()
\*     except KeyboardInterrupt: sys.exit(0)
\*     except Exception: sys.exit(1)
\* gives the exit status of the process
Boundary(escape) ==
    IF escape \in {"SystemExit0", "KeyboardInterrupt"} THEN 0 ELSE 1

\* handle_exit_confirmation(): the new value of session_active
HandleExitConfirmation(active, confirm) ==
    IF confirm = "no" THEN active ELSE FALSE


\* export_tracks_to_csv(tracks, default_name): nothing is written when no
\* file name is entered; save_tracks runs inside a try
ExportTracksToCsv(h, export) ==
    IF export THEN SaveTracks(h, h.tracks) ELSE h

\* One handler of the interactive menu, run on session_extractor.
\*   go: "cancel" (the first prompt is left empty or cancelled), "decline"
\*       (the last confirmation is refused) or "proceed"
\*   export: a file name is entered when an export is offered
\*   x = 1: the first upstream read or create raises
\*   x = 2: Ctrl+C arrives while the handler runs; signal_handler raises
\*          KeyboardInterrupt because session_active is set
MenuHandler(action, h, go, export, x) ==
    LET f == [NoFaults EXCEPT !.x = IF x = 1 THEN 1 ELSE 0]
        favs == Then(h, "get_favorite_tracks", GetFavoriteTracks(h.fav, h.pls, f))
        lists == Then(h, "get_playlists", GetPlaylists(h.fav, h.pls, f))
        own == OwnedOf(h.pls, PlaylistOrder)
        picked == Then(lists, "get_playlist_tracks",
                       GetPlaylistTracks(lists.fav, lists.pls, own[1], [x |-> 0]))
        loaded == LoadTracksFromCsv(h.exists, h.lines)
    IN IF x = 2 THEN [h EXCEPT !.kind = "KeyboardInterrupt"]
       ELSE IF action \in {"view_favorites", "export_favorites"}
       THEN (IF favs.kind # "return" \/ favs.tracks = <<>> THEN favs
             ELSE ExportTracksToCsv(favs, export))
       ELSE IF action \in {"view_playlists", "export_playlist"}
       THEN (IF lists.kind # "return" \/ own = <<>> \/ go = "cancel" THEN lists
             ELSE IF picked.kind # "return" \/ picked.tracks = <<>> THEN picked
             ELSE ExportTracksToCsv(picked, export))
       ELSE IF action = "search_tracks"
       THEN (IF go = "cancel" THEN h
             ELSE IF favs.kind # "return" THEN favs
             ELSE LET ls == Then(favs, "get_playlists",
                                 GetPlaylists(favs.fav, favs.pls, [x |-> 0]))
                      all == ReadEach(ls, own)
                  IN IF all.kind # "return" \/ all.tracks = <<>> THEN all
                     ELSE ExportTracksToCsv(all, export))
       ELSE IF action = "import_csv"
       THEN (IF go = "cancel" \/ loaded.status # "ok" \/ loaded.tracks = <<>>
                \/ go = "decline"
             THEN h
             ELSE Then(h, "create_playlist",
                       ImportCsvToPlaylist(h.fav, h.pls, IdTexts(loaded.tracks),
                                           f)))
       ELSE IF action = "reorder_playlist"
       THEN (IF lists.kind # "return" \/ own = <<>> \/ go = "cancel"
                \/ loaded.status # "ok" \/ loaded.tracks = <<>>
             THEN lists
             ELSE IF picked.kind # "return" \/ go = "decline" THEN picked
             \* line 922: TidalExtractor has no reorder_playlist attribute
             ELSE [picked EXCEPT !.kind = "Exception"])
       ELSE \* empty_favorites_interactive
            IF favs.kind # "return" \/ favs.tracks = <<>> \/ go # "proceed"
            THEN favs
            ELSE Then(favs, "empty_favorites",
                      RemoveAllFavoriteTracks(favs.fav, favs.pls, NoFaults))

----------------------------------------------------------------------------
(* One process of main.py *)

CliInit ==
    \* the CSV path is missing, or holds a header and two rows
    /\ \E file \in { [exists |-> FALSE, lines |-> <<>>],
                     [exists |-> TRUE,
                      lines |-> << <<"id", "title">>, << <<"2">>, <<"a">> >>,
                                   << <<"1">>, <<"b">> >> >>] } :
         fileExists = file.exists /\ fileLines = file.lines
    /\ savedTracks = <<>> /\ savedFields = None /\ loadResult = NoLoad
    /\ csvPc = "start"
    /\ FmtUnused
    /\ fav \in {l \in FavoriteLists : Len(l) # 1}
    /\ pls = InitialPlaylists
    /\ session = 0 /\ collector = 0 /\ authCalls = 0
    /\ op = NoOp /\ ret = RetNone /\ calls = <<>> /\ pre = NoPre
    /\ served = 0 /\ pc = "idle"
    /\ command = "none" /\ cliPc = "start" /\ exitCode = <<>>
    /\ session_active = FALSE /\ exit_requested = FALSE
    /\ issued = <<>> /\ escaped = "none" /\ step = NoStep

\* nothing of the Extractor's call record or of the formatter is used here
CliFrame ==
    /\ UNCHANGED <<savedTracks, savedFields, loadResult, csvPc>>
    /\ UNCHANGED <<op, ret, pre, served, pc>>
    /\ UNCHANGED fmtVars

\* cli() is left with that exception or sys.exit and the process ends
Terminate(escape) ==
    /\ escaped' = escape
    /\ exitCode' = Some(Boundary(escape))
    /\ cliPc' = "exited"

\* the state a handler result leaves behind
Apply(h) ==
    /\ fav' = h.fav /\ pls' = h.pls
    /\ fileExists' = h.exists /\ fileLines' = h.lines
    /\ calls' = h.calls /\ issued' = h.issued

\* the handler starts with what is upstream and on disk now
Here == Ran("return", <<>>, <<>>, fav, pls, fileExists, fileLines, <<>>)

\* `python main.py COMMAND ...` up to the end of connect(); with
\* --from-csv the whole command
CliStart ==
    /\ cliPc = "start"
    /\ \E cmd \in TidalCommands, from_csv \in BOOLEAN, outcome \in AuthOutcomes :
         /\ from_csv => /\ cmd \in {"favorites", "list_playlist", "search"}
                         /\ outcome = "ok"
         /\ command' = cmd
         /\ IF from_csv
            THEN /\ \E e \in Escapes(FromCsv(Here).kind) : Terminate(e)
                 /\ UNCHANGED <<session, collector, authCalls, calls, issued,
                                session_active>>
            ELSE LET c == Startup(cmd, session, collector, authCalls, outcome)
                 IN /\ session' = c.session
                    /\ collector' = c.collector
                    /\ authCalls' = c.authCalls
                    /\ calls' = c.calls
                    /\ issued' = <<"connect">>
                    /\ IF ~c.ok THEN /\ Terminate("SystemExit1")
                                     /\ UNCHANGED session_active
                       ELSE IF cmd = "interactive"
                       THEN /\ session_active' = TRUE
                            /\ cliPc' = "menu"
                            /\ UNCHANGED <<exitCode, escaped>>
                       ELSE /\ cliPc' = "connected"
                            /\ UNCHANGED <<exitCode, escaped, session_active>>
    /\ UNCHANGED <<fav, pls, fileExists, fileLines, exit_requested, step>>
    /\ CliFrame

\* the arguments a command is given; only those the command reads differ
\* from the first choice
ArgsOf(cmd) ==
    {a \in [x : {0, 1}, go : BOOLEAN, pid : {"p1", "p2"},
            ids : { <<>>, << <<"2">> >>, << <<"x">>, <<"1">> >> },
            search : BOOLEAN] :
        /\ cmd # "empty_favorites" => a.go
        /\ cmd \notin {"list_playlist", "add"} => a.pid = "p1"
        /\ cmd \notin {"create", "add"} => a.ids = <<>>
        /\ cmd # "create" => ~a.search
        /\ cmd = "add" => a.x = 0}

\* the rest of a command after connect() succeeded
CliBody ==
    /\ cliPc = "connected"
    /\ \E a \in ArgsOf(command) :
         \E h \in {CommandBody(command, Here, a)} :
            /\ Fits(h.pls)
            /\ Apply(h)
            /\ \E e \in Escapes(h.kind) : Terminate(e)
    /\ UNCHANGED <<session, collector, authCalls, command, session_active,
                   exit_requested, step>>
    /\ CliFrame

\* signal_handler: Ctrl+C while a command other than the interactive
\* session runs.  A second Ctrl+C after an interrupted confirmation, or a
\* confirmed exit, is sys.exit(0).
CliSignal ==
    /\ cliPc \in {"start", "connected"}
    /\ ~session_active
    /\ \E confirm \in {"yes", "no", "interrupt"} :
         IF exit_requested \/ confirm = "yes"
         THEN /\ confirm = "yes"
              /\ Terminate("SystemExit0")
              /\ UNCHANGED exit_requested
         ELSE /\ exit_requested' = (confirm = "interrupt")
              /\ UNCHANGED <<cliPc, exitCode, escaped>>
    /\ UNCHANGED <<fav, pls, fileExists, fileLines, session, collector,
                   authCalls, calls, command, session_active, issued, step>>
    /\ CliFrame

\* One iteration of `while session_active` in interactive(): the menu,
\* the chosen handler, and the except clauses of the loop.
\*   action "none": Ctrl+C at the menu, ask() gives None
\*   confirm: the answer to handle_exit_confirmation
\*   enter: what input() gets after "Press Enter to continue..."
CliMenuStep ==
    /\ cliPc = "menu"
    /\ session_active
    /\ \E action \in {"view_favorites", "view_playlists", "search_tracks",
                      "export_favorites", "export_playlist", "import_csv",
                      "reorder_playlist", "empty_favorites", "exit", "none"},
          go \in {"cancel", "decline", "proceed"}, export \in BOOLEAN,
          x \in {0, 1, 2}, confirm \in {"yes", "no", "interrupt"},
          enter \in {"enter", "KeyboardInterrupt", "EOFError"} :
         /\ action \in {"exit", "none"} => x = 0
         \* inputs the handler never asks for keep their first value
         /\ x = 2 \/ action \in {"view_favorites", "export_favorites", "exit",
                                 "none"}
            => go = "cancel"
         /\ x = 2 \/ action \in {"import_csv", "reorder_playlist",
                                 "empty_favorites", "exit", "none"}
            => ~export
         /\ action \notin {"import_csv", "reorder_playlist"} => go # "decline"
         /\ action = "import_csv" => ~pls[NewPid].exists
         /\ \E h \in {IF action \in {"exit", "none"} THEN Here
                      ELSE MenuHandler(action, Here, go, export, x)} :
              /\ Fits(h.pls)
              /\ Apply(h)
              /\ step' = [action |-> action, go |-> go, export |-> export,
                          x |-> x, kind |-> h.kind, confirm |-> confirm,
                          enter |-> enter]
              /\ IF action \in {"exit", "none"}
                    \/ h.kind \in {"KeyboardInterrupt", "EOFError"}
                 THEN /\ enter = "enter"
                      /\ session_active'
                           = HandleExitConfirmation(session_active, confirm)
                      /\ UNCHANGED <<cliPc, exitCode, escaped>>
                 ELSE IF h.kind = "Exception"
                 THEN /\ confirm = "no"
                      /\ IF enter = "enter"
                         THEN UNCHANGED <<cliPc, exitCode, escaped>>
                         ELSE \E e \in Escapes(enter) : Terminate(e)
                      /\ UNCHANGED session_active
                 ELSE /\ confirm = "no" /\ enter = "enter"
                      /\ UNCHANGED <<cliPc, exitCode, escaped, session_active>>
    /\ UNCHANGED <<session, collector, authCalls, command, exit_requested>>
    /\ CliFrame

\* `while session_active` is false: "Session ended", interactive() returns
CliSessionEnd ==
    /\ cliPc = "menu"
    /\ ~session_active
    /\ \E e \in Escapes("return") : Terminate(e)
    /\ UNCHANGED <<fav, pls, fileExists, fileLines, session, collector,
                   authCalls, calls, command, session_active, exit_requested,
                   issued, step>>
    /\ CliFrame

CliNext == CliStart \/ CliBody \/ CliSignal \/ CliMenuStep \/ CliSessionEnd

SpecCli == CliInit /\ [][CliNext]_vars

----------------------------------------------------------------------------
(* Claims about the CSV codec, checked under SpecCsv *)

CsvHeader == IF fileLines = <<>> THEN <<>> ELSE fileLines[1]

WrittenFields == IF savedFields = None THEN DefaultFields ELSE savedFields[1]

\* the value load_tracks_from_csv gives a field whose column is absent
FieldDefault(f) == IF f \in {"id", "duration"} THEN None ELSE <<>>

\* C1: after save_tracks_to_file of a non-empty list with the default
\* fields, load_tracks_from_csv returns as many tracks, in the same order,
\* each with the id, title, artists, album and duration of the original.
C1_RoundTripDefault ==
    (csvPc = "read_saved" /\ savedFields = None /\ savedTracks # <<>>)
    => /\ loadResult.status = "ok"
       /\ Len(loadResult.tracks) = Len(savedTracks)
       /\ \A i \in 1..Len(savedTracks) :
            \A f \in FieldNames : loadResult.tracks[i][f] = savedTracks[i][f]

\* C2: for any list of tracks and any non-empty list of distinct fields,
\* write then read succeeds, every written field reads back equal to the
\* original and every other field reads back as its default.
C2_RoundTripAnyFields ==
    csvPc = "read_saved"
    => /\ loadResult.status = "ok"
       /\ Len(loadResult.tracks) = Len(savedTracks)
       /\ \A i \in 1..Len(savedTracks) :
            \A f \in FieldNames :
               loadResult.tracks[i][f] =
                  IF f \in Range(WrittenFields) THEN savedTracks[i][f]
                  ELSE FieldDefault(f)

\* what the reader makes of the artists the writer joined with ", "
JoinedThenSplit(artists) ==
    LET cell == Join(<<",", " ">>, artists)
        segs == Split(cell, ",")
    IN IF cell = <<>> THEN <<>> ELSE [i \in 1..Len(segs) |-> Strip(segs[i])]

\* C2 (amended): for a non-empty list of tracks and a list of distinct
\* fields that contains id and title, write then read succeeds with one
\* track per original in order; id, title, album and duration read back
\* equal to the original when written, artists reads back as the trimmed
\* comma-separated segments of the ", "-joined names when written, and
\* every field that was not written reads back as its default.
C2_RoundTripWithRequiredFields ==
    (csvPc = "read_saved" /\ savedTracks # <<>>
       /\ {"id", "title"} \subseteq Range(WrittenFields))
    => /\ loadResult.status = "ok"
       /\ Len(loadResult.tracks) = Len(savedTracks)
       /\ \A i \in 1..Len(savedTracks) :
            \A f \in FieldNames :
               loadResult.tracks[i][f] =
                  IF f \notin Range(WrittenFields) THEN FieldDefault(f)
                  ELSE IF f = "artists"
                  THEN JoinedThenSplit(savedTracks[i].artists)
                  ELSE savedTracks[i][f]

C2_Witness ==
    /\ csvPc = "read_saved"
    /\ savedFields = Some(<<"duration", "title", "id">>)
    /\ Len(savedTracks) = 2
    /\ savedTracks[1].duration = Some(0)
    /\ savedTracks[2].artists # <<>>
    /\ loadResult.status = "ok"
    /\ loadResult.tracks[1].duration = Some(0)
    /\ loadResult.tracks[2].artists = <<>>

\* C10: reading an existing file whose header lacks id or title fails with
\* the ValueError that names both id and title and yields no track,
\* whatever the rows and the other columns are.
C10_MissingRequiredColumn ==
    (csvPc \in {"read_start", "read_saved", "read_foreign"} /\ fileExists
       /\ ~({"id", "title"} \subseteq Range(CsvHeader)))
    => /\ loadResult.status = "ValueError"
       /\ loadResult.names = {"id", "title"}
       /\ loadResult.tracks = <<>>

C10_Witness ==
    /\ csvPc = "read_foreign"
    /\ "id" \in Range(CsvHeader) /\ "title" \notin Range(CsvHeader)
    /\ Len(fileLines) > 1 /\ fileLines[2] # <<>>
    /\ loadResult.status = "ValueError"
    /\ loadResult.names = {"id", "title"}

----------------------------------------------------------------------------
(* Claims about the Collector, checked under SpecCollector *)

CallsNamed(cs, name) == SelectSeq(cs, LAMBDA c : c.call = name)

Returned(name) == pc = "returned" /\ op.name = name

\* the lookup of the target playlist gave a handle
Resolved == pre.pls[op.pid].exists /\ op.f.r1 = "ok"

\* that handle is a UserPlaylist, which has add and clear
Owned == pre.pls[op.pid].owned

ResolveCalls(pid) ==
    <<Call("session.playlist", pid, <<>>), Call("playlist.factory", pid, <<>>)>>

\* C3: add_tracks_to_playlist on a resolvable playlist with at least one id
\* that coerces returns True and makes exactly one add call, with the
\* coerced ids in order; with no id that coerces it returns False and makes
\* no add call.
C3_AddAlwaysSucceeds ==
    (Returned("add_tracks_to_playlist") /\ Resolved)
    => IF IntTrackIds(op.ids) # <<>>
       THEN /\ ret = RetBool(TRUE)
            /\ CallsNamed(calls, "playlist.add")
                 = <<Call("playlist.add", op.pid, IntTrackIds(op.ids))>>
       ELSE /\ ret = RetBool(FALSE)
            /\ CallsNamed(calls, "playlist.add") = <<>>

\* C3 (amended): on a resolvable playlist whose handle has add, with at
\* least one id that coerces, add_tracks_to_playlist makes exactly one add
\* call, with the coerced ids in their original order (invalid ids dropped,
\* duplicates kept), and returns True exactly when that call does not
\* raise; when no id coerces, or the handle has no add, it returns False
\* and makes no add call.
C3_AddOneBatch ==
    (Returned("add_tracks_to_playlist") /\ Resolved)
    => IF IntTrackIds(op.ids) # <<>> /\ Owned
       THEN /\ ret = RetBool(op.f.a = "ok")
            /\ CallsNamed(calls, "playlist.add")
                 = <<Call("playlist.add", op.pid, IntTrackIds(op.ids))>>
       ELSE /\ ret = RetBool(FALSE)
            /\ CallsNamed(calls, "playlist.add") = <<>>
            /\ pls = pre.pls

C3_Witness ==
    /\ Returned("add_tracks_to_playlist")
    /\ op.pid = "p1"
    /\ op.ids = << <<"x">>, <<"2">> >>
    /\ ret = RetBool(TRUE)
    /\ CallsNamed(calls, "playlist.add") = <<Call("playlist.add", "p1", <<2>>)>>
    /\ pre.pls["p1"].tracks = <<1>>
    /\ pls["p1"].tracks = <<1, 2>>

\* C4: remove_all_favorite_tracks attempts one removal per fetched track,
\* in fetch order, also after a removal raised, and returns True exactly
\* when no removal raised; a raising fetch gives False and no removal, an
\* empty list gives True and no removal.
C4_RemoveAllAggregates ==
    Returned("remove_all_favorite_tracks")
    => IF op.f.x = 1
       THEN /\ ret = RetBool(FALSE)
            /\ CallsNamed(calls, "favorites.remove_track") = <<>>
       ELSE /\ CallsNamed(calls, "favorites.remove_track")
                 = [i \in 1..Len(pre.fav) |->
                      Call("favorites.remove_track", NoPid, <<pre.fav[i]>>)]
            /\ ret = RetBool(op.f.fails = {})

C4_Witness ==
    /\ Returned("remove_all_favorite_tracks")
    /\ pre.fav = <<2, 1>>
    /\ op.f.fails = {1}
    /\ ret = RetBool(FALSE)
    /\ Len(CallsNamed(calls, "favorites.remove_track")) = 2
    /\ fav = <<2>>

\* C5: no Collector method lets an exception of the upstream client reach
\* its caller.
C5_NeverPropagates ==
    (pc = "returned" /\ op.name \notin CommandNames) => ret.kind # "raised"

\* the clear step of the reorder that just returned
ClearStep == ClearPlaylist(pre.fav, pre.pls, op.pid, op.f.r1, op.f.c)

IsPrefix(a, b) == Len(a) <= Len(b) /\ SubSeq(b, 1, Len(a)) = a

\* C6: reorder_playlist runs clear_playlist before any add, and when the
\* clear step fails it returns False without calling add_tracks_to_playlist:
\* nothing but the calls of the clear step is issued.
C6_ClearBeforeAdd ==
    Returned("reorder_playlist")
    => /\ IsPrefix(ClearStep.calls, calls)
       /\ \A i \in 1..Len(ClearStep.calls) : calls[i].call # "playlist.add"
       /\ ~ClearStep.ret.b
            => /\ ret = RetBool(FALSE)
               /\ calls = ClearStep.calls
               /\ CallsNamed(calls, "playlist.add") = <<>>

C6_Witness ==
    /\ Returned("reorder_playlist")
    /\ op.pid = "p1"
    /\ pre.pls["p1"].tracks # <<>>
    /\ op.f.c = "raise"
    /\ IntTrackIds(op.ids) # <<>>
    /\ ret = RetBool(FALSE)
    /\ calls[Len(calls)].call = "playlist.clear"

\* C7: clear_playlist returns False without any further upstream call on a
\* resolved handle that has no clear, returns True without calling clear on
\* a handle with clear and 0 tracks, and returns False when the playlist
\* does not resolve.
C7_CapabilityGatedClear ==
    Returned("clear_playlist")
    => /\ (Resolved /\ ~Owned)
            => ret = RetBool(FALSE) /\ calls = ResolveCalls(op.pid)
       /\ (Resolved /\ Owned /\ pre.pls[op.pid].tracks = <<>>)
            => /\ ret = RetBool(TRUE)
               /\ CallsNamed(calls, "playlist.clear") = <<>>
       /\ ~Resolved
            => /\ ret = RetBool(FALSE)
               /\ CallsNamed(calls, "playlist.clear") = <<>>
               /\ CallsNamed(calls, "playlist.num_tracks") = <<>>

C7_Witness ==
    /\ Returned("clear_playlist")
    /\ op.pid = "p2"
    /\ op.f.r1 = "ok"
    /\ ret = RetBool(FALSE)
    /\ calls = ResolveCalls("p2")

----------------------------------------------------------------------------
(* Claims about the Extractor, checked under SpecExtractor *)

AuthCallNames == {"session.login_oauth", "future.result", "session.check_login"}

\* C8: a data call on an Extractor without collector calls connect() first;
\* when connect fails it returns [] (False for empty_favorites), raises
\* nothing and makes no Collector or upstream call.
C8_LazyConnectFailure ==
    (pc = "returned" /\ op.name \in DataCalls /\ pre.collector = 0)
    => /\ authCalls = pre.authCalls + 1
       /\ calls # <<>> /\ calls[1].call = "session.login_oauth"
       /\ op.auth # "ok"
            => /\ ret = EmptyResult(op.name)
               /\ served = 0
               /\ \A i \in 1..Len(calls) : calls[i].call \in AuthCallNames
               /\ fav = pre.fav /\ pls = pre.pls
               /\ collector = 0 /\ session = 0

C8_Witness ==
    /\ pc = "returned" /\ op.name = "empty_favorites"
    /\ pre.collector = 0 /\ pre.fav # <<>>
    /\ op.auth = "check_false"
    /\ ret = RetBool(FALSE)
    /\ fav = pre.fav

\* C9: once a connect has succeeded, a data call does not authenticate
\* again and is served by the collector and session that are already there.
C9_SessionAcquiredOnce ==
    [][(pc = "idle" /\ pc' = "returned" /\ op'.name \in DataCalls
          /\ collector # 0)
       => /\ authCalls' = authCalls
          /\ collector' = collector
          /\ session' = session
          /\ served' = collector]_vars

C9_Witness ==
    /\ pc = "returned" /\ op.name = "get_playlist_tracks"
    /\ pre.collector = 1 /\ pre.authCalls = 1
    /\ authCalls = 1 /\ collector = 1 /\ session = 1 /\ served = 1
    /\ ret.kind = "list" /\ ret.items # <<>>

----------------------------------------------------------------------------
(* Further claims about the CSV codec, checked under SpecCsv *)

CsvRead ==
    csvPc \in {"read_start", "read_saved", "read_partial", "read_foreign"}

\* the rows DictReader hands to the loop of load_tracks_from_csv
DataRows == SkipBlank(IF fileLines = <<>> THEN <<>> ELSE Tail(fileLines))

\* the id cell of the row is not the text of an integer
BadIdCell(row) == ~PyInt(RowGet(CsvHeader, row, "id").cell).ok

\* the duration cell of the row is non-empty and not the text of an integer
BadDurationCell(row) ==
    /\ Truthy(RowGet(CsvHeader, row, "duration"))
    /\ ~PyInt(RowGet(CsvHeader, row, "duration").cell).ok

\* C11: a read of a file with the id and title columns either fails with
\* ValueError, which it does when some data row has an id cell or a
\* non-empty duration cell that is not an integer, or returns tracks that
\* all have an integer id.
C11_IntegerIdOrFail ==
    (CsvRead /\ fileExists /\ RequiredFields \subseteq Range(CsvHeader))
    => IF \E i \in 1..Len(DataRows) :
             BadIdCell(DataRows[i]) \/ BadDurationCell(DataRows[i])
       THEN loadResult.status = "ValueError"
       ELSE /\ loadResult.status = "ok"
            /\ \A i \in 1..Len(loadResult.tracks) :
                 loadResult.tracks[i].id # None

----------------------------------------------------------------------------
(* Further claims about the Collector, checked under SpecCollector *)

Min(a, b) == IF a < b THEN a ELSE b

\* C12: search_tracks(query, limit) that returns gives at most limit
\* tracks: the first min(limit, n) of the n upstream results, normalized,
\* in upstream order.
C12_SearchLimit ==
    (Returned("search_tracks") /\ ret.kind = "list")
    => /\ Len(ret.items) <= op.limit
       /\ ret.items =
            FormatTrackResults(
                SubSeq(SearchIndex, 1, Min(op.limit, Len(SearchIndex))))

\* the dict d is the normalization of the upstream record rec
NormalizedFrom(d, rec) ==
    /\ d.id = Some(rec.id)
    /\ d.title = rec.name
    /\ d.artists = rec.artists
    /\ d.album = (IF rec.albumAttr = "set" THEN rec.albumName ELSE Unknown)
    /\ d.duration = (IF rec.durationAttr = "missing" THEN None
                     ELSE rec.duration)

\* C13: the tracks that get_favorite_tracks and search_tracks return are
\* the upstream records normalized: id, title and artist names copied,
\* album the album's name or "Unknown" when the record has no album or a
\* null one, duration the record's (0 included) or None when the record
\* has no duration field.
C13_NormalizationDefaults ==
    /\ (Returned("get_favorite_tracks") /\ ret.kind = "list")
       => /\ Len(ret.items) = Len(pre.fav)
          /\ \A i \in 1..Len(ret.items) :
               NormalizedFrom(ret.items[i], Catalog(pre.fav[i]))
    /\ (Returned("search_tracks") /\ ret.kind = "list")
       => \A i \in 1..Len(ret.items) :
            NormalizedFrom(ret.items[i], Catalog(SearchIndex[i]))

C13_Witness ==
    /\ Returned("search_tracks")
    /\ Len(ret.items) = 3
    /\ ret.items[1].album = Unknown /\ ret.items[1].duration = None
    /\ ret.items[1].artists = <<>>
    /\ ret.items[2].duration = Some(0) /\ ret.items[2].album = <<"a">>
    /\ ret.items[3].album = Unknown /\ ret.items[3].duration = Some(75)

\* C14: add_tracks_to_playlist returns True exactly when the playlist id
\* resolves, at least one id coerces to an integer and the add call on the
\* handle goes through (the handle has add and add does not raise); when
\* the playlist is not found it returns False after the lookup alone, with
\* no add call and nothing changed upstream; when add raises it returns
\* False and the one add call is the last upstream call.
C14_AddResult ==
    Returned("add_tracks_to_playlist")
    => /\ ret.kind = "bool"
       /\ ret.b <=> (/\ Resolved
                     /\ IntTrackIds(op.ids) # <<>>
                     /\ Owned /\ op.f.a = "ok")
       /\ ~Resolved
          => /\ ret = RetBool(FALSE)
             /\ \A i \in 1..Len(calls) :
                  calls[i].call \in {"session.playlist", "playlist.factory"}
             /\ pls = pre.pls /\ fav = pre.fav
       /\ (Resolved /\ op.f.a # "ok")
          => /\ ret = RetBool(FALSE)
             /\ Len(CallsNamed(calls, "playlist.add")) = 1
             /\ calls[Len(calls)].call = "playlist.add"

C14_Witness ==
    /\ Returned("add_tracks_to_playlist")
    /\ Resolved /\ Owned
    /\ op.f.a = "raise_partial"
    /\ op.ids = << <<"2">>, <<"1">> >>
    /\ ret = RetBool(FALSE)
    /\ calls = ResolveCalls(op.pid)
                 \o <<Call("playlist.add", op.pid, <<2, 1>>)>>
    /\ pls[op.pid].tracks = pre.pls[op.pid].tracks \o <<2>>

----------------------------------------------------------------------------
(* Claims about the rows read and written, checked under SpecCsv *)

\* the cell of column f in the row, or the empty text when the header has
\* no such column or the row ends before it
CellOrEmpty(row, f) ==
    IF Truthy(RowGet(CsvHeader, row, f)) THEN RowGet(CsvHeader, row, f).cell
    ELSE <<>>

\* the comma-separated segments of the cell, each without surrounding
\* whitespace
TrimmedSegments(cell) ==
    [k \in 1..Len(Split(cell, ",")) |-> Strip(Split(cell, ",")[k])]

\* C15: every track of a successful read comes from one data row: artists
\* is the trimmed comma-separated segments of a non-empty artists cell and
\* the empty sequence when the column is absent or the cell empty; title
\* and album are the cell's text, the empty string when there is none.
C15_RowDefaults ==
    (CsvRead /\ loadResult.status = "ok")
    => /\ Len(loadResult.tracks) = Len(DataRows)
       /\ \A i \in 1..Len(DataRows) :
            /\ loadResult.tracks[i].artists
                 = (IF CellOrEmpty(DataRows[i], "artists") # <<>>
                    THEN TrimmedSegments(CellOrEmpty(DataRows[i], "artists"))
                    ELSE <<>>)
            /\ loadResult.tracks[i].title = CellOrEmpty(DataRows[i], "title")
            /\ loadResult.tracks[i].album = CellOrEmpty(DataRows[i], "album")

\* the text of a track's value: an int in decimal, a str as it is
ValueText(f, v) == IF f \in {"id", "duration"} THEN PyStr(v[1]) ELSE v

\* the track has no value for the field: the key is missing or holds None
Absent(track, f) ==
    \/ f \notin DOMAIN track
    \/ track[f] = (IF f \in {"id", "duration"} THEN None ELSE NoneStr)

\* what the claim has in the cell of field f of the track's row
ExpectedCell(track, f) ==
    IF f = "artists"
    THEN (IF Absent(track, f) THEN <<>> ELSE Join(<<",", " ">>, track.artists))
    ELSE IF Absent(track, f) THEN <<>>
    ELSE ValueText(f, track[f])

C17_EmptySaveLeavesNoContent ==
    (csvPc = "saved" /\ savedTracks = <<>>)
    => (~fileExists \/ fileLines = <<>>)

\* C17 (amended): save_tracks_to_file of an empty list leaves the path as
\* it was: no file is created and an existing file keeps its content.
C17_EmptySaveWritesNothing ==
    [][(csvPc = "start" /\ csvPc' = "saved" /\ savedTracks' = <<>>)
       => (fileExists' = fileExists /\ fileLines' = fileLines)]_vars

C17_Witness ==
    /\ csvPc = "saved" /\ savedTracks = <<>>
    /\ fileExists
    /\ fileLines = << <<"id", "title">>, << <<"7">>, <<"x">> >> >>

----------------------------------------------------------------------------
(* Claims about format_duration, checked under SpecFormat *)

\* the two numbers of a text "m:ss"
PairOf(text) == <<PyInt(Split(text, ":")[1]).val, PyInt(Split(text, ":")[2]).val>>

PairBelow(p, q) == p[1] < q[1] \/ (p[1] = q[1] /\ p[2] < q[2])

\* C18: format_duration gives "Unknown" for None and, for s >= 0, the
\* decimal s div 60, a colon and s mod 60 on two digits (minutes are not
\* capped at 59); the (minutes, seconds) pair of every smaller duration is
\* strictly below that of s.
C18_FormatDuration ==
    formatted # <<>>
    => /\ seconds = None => formatted = Unknown
       /\ (seconds # None /\ seconds[1] >= 0)
          => /\ formatted = StrNat(seconds[1] \div 60) \o <<":">>
                              \o << Digits[((seconds[1] % 60) \div 10) + 1],
                                    Digits[((seconds[1] % 60) % 10) + 1] >>
             /\ Len(Split(formatted, ":")) = 2
             /\ \A t \in 0..(seconds[1] - 1) :
                  PairBelow(PairOf(FormatDuration(Some(t))), PairOf(formatted))

C18_Witness ==
    /\ seconds = Some(3661)
    /\ formatted = <<"6", "1", ":", "0", "1">>

----------------------------------------------------------------------------
(* Claims about the callers of create_playlist, checked under SpecCollector *)

\* C19: when the upstream create call fails, create_playlist returns None
\* without raising, and the commands that create a playlist (`playlist
\* create` and the CSV import) end without an exception and without any
\* lookup of, or add to, a playlist.
C19_CreateFailureNonFatal ==
    /\ (Returned("create_playlist") /\ op.f.x = 1) => ret = RetNone
    /\ ((Returned("cli_create") \/ Returned("import_csv")) /\ op.f.x = 1)
       => /\ ret.kind # "raised"
          /\ calls = <<Call("user.create_playlist", NoPid, <<>>)>>
          /\ pls = pre.pls

----------------------------------------------------------------------------
(* Claims about authenticate, checked under SpecExtractor *)

\* authenticate ran in the call that just returned
Authenticated == pc = "returned" /\ authCalls = pre.authCalls + 1

\* C20: authenticate does not raise (connect returns a boolean, and a call
\* that logs in lazily raises only from the collector it reached after a
\* successful login); it returns the new session exactly
\* when login_oauth started the login, the future resolved and check_login
\* was true, and None in every other case; check_login is only called
\* after login_oauth and future.result, and not at all when one of them
\* raised.
C20_AuthenticateTotal ==
    Authenticated
    => /\ op.name = "connect" => ret = RetBool(op.auth = "ok")
       /\ ret.kind = "raised" => op.auth = "ok" /\ served # 0
       /\ session = (IF op.auth = "ok" THEN authCalls ELSE 0)
       /\ Len(calls) >= 1 /\ calls[1].call = "session.login_oauth"
       /\ \A i \in 1..Len(calls) :
            calls[i].call = "session.check_login"
            => /\ i = 3
               /\ calls[2].call = "future.result"
               /\ op.auth \notin {"login_raises", "future_raises"}
       /\ op.auth = "login_raises"
          => \A i \in 2..Len(calls) : calls[i].call \notin AuthCallNames
       /\ op.auth \in {"ok", "check_false", "check_raises"}
          => Len(calls) >= 3 /\ calls[3].call = "session.check_login"

C20_Witness ==
    /\ Authenticated
    /\ op.name = "connect"
    /\ op.auth = "check_false"
    /\ ret = RetBool(FALSE)
    /\ session = 0
    /\ Len(calls) = 3

----------------------------------------------------------------------------
(* Further claims about the Extractor, checked under SpecExtractor *)

\* C28: after any sequence of connect() calls and data calls on one
\* Extractor, the collector is set exactly when the session is set, and a
\* set collector wraps the current session; a failed connect leaves both
\* unset.
C28_CollectorIffSession ==
    /\ collector # 0 <=> session # 0
    /\ collector # 0 => collector = session

----------------------------------------------------------------------------
(* Further claims about the Collector, checked under SpecCollector *)

\* the add step of the reorder that just returned, run on what the clear
\* step left
AddStep ==
    AddTracksToPlaylist(ClearStep.fav, ClearStep.pls, op.pid, op.ids,
                        op.f.r2, op.f.a)

\* the reorder that just returned cleared a playlist that held tracks, ran
\* its add step, and the add step failed
AddFailedAfterClear ==
    /\ Returned("reorder_playlist")
    /\ ClearStep.ret.b
    /\ pre.pls[op.pid].tracks # <<>>
    /\ op.ids # <<>>
    /\ ~AddStep.ret.b

\* C22: when the clear step succeeds on a non-empty playlist and the add
\* step then fails (add raises, the playlist no longer resolves, or no id
\* coerces), reorder_playlist returns False, the playlist is left empty and
\* no call is issued to restore the previous tracks.
C22_FailedAddLeavesEmpty ==
    AddFailedAfterClear
    => /\ ret = RetBool(FALSE)
       /\ pls[op.pid].tracks = <<>>
       /\ calls = ClearStep.calls \o AddStep.calls

\* C22 (amended): in that case reorder_playlist returns False and issues
\* nothing after the failed add step: every add call it made carries the
\* supplied ids, none the previous tracks.  The playlist holds none of its
\* previous content; it is empty unless the add call raised after the
\* upstream had applied part of it, and then it holds what that call left.
C22_NoRollback ==
    AddFailedAfterClear
    => /\ ret = RetBool(FALSE)
       /\ calls = ClearStep.calls \o AddStep.calls
       /\ \A i \in 1..Len(calls) :
            calls[i].call = "playlist.add"
            => calls[i].ids = IntTrackIds(op.ids)
       /\ Len(CallsNamed(calls, "playlist.add")) <= 1
       /\ pls = AddStep.pls
       /\ op.f.a # "raise_partial" => pls[op.pid].tracks = <<>>
       /\ op.f.a = "raise_partial"
            => IsPrefix(pls[op.pid].tracks, IntTrackIds(op.ids))

C22_Witness ==
    /\ AddFailedAfterClear
    /\ op.pid = "p1"
    /\ pre.pls["p1"].tracks = <<1>>
    /\ op.ids = << <<"2">>, <<"1">> >>
    /\ op.f.a = "raise_none"
    /\ ret = RetBool(FALSE)
    /\ pls["p1"].tracks = <<>>
    /\ calls[Len(calls)] = Call("playlist.add", "p1", <<2, 1>>)

\* the methods that change a playlist through its handle
PlaylistMutators ==
    {"add_tracks_to_playlist", "clear_playlist", "reorder_playlist"}

\* C23: on a resolved handle without the mutation capability (a playlist
\* the user does not own) add_tracks_to_playlist, clear_playlist and
\* reorder_playlist return False, raise nothing and leave the upstream
\* unchanged: whether the handle has the capability decides, and nothing
\* but the resolving calls is issued.
C23_NoCapabilityNoChange ==
    (pc = "returned" /\ op.name \in PlaylistMutators /\ Resolved /\ ~Owned)
    => /\ ret = RetBool(FALSE)
       /\ pls = pre.pls
       /\ fav = pre.fav
       /\ calls = ResolveCalls(op.pid)

C23_Witness ==
    /\ Returned("add_tracks_to_playlist")
    /\ op.pid = "p2"
    /\ Resolved /\ ~Owned
    /\ op.f.a = "ok"
    /\ IntTrackIds(op.ids) = <<1, 2>>
    /\ ret = RetBool(FALSE)
    /\ pls["p2"].tracks = <<2, 1>>

\* the remove_track calls of the run that just returned, and the tracks of
\* those that raised
RemovalCalls == CallsNamed(calls, "favorites.remove_track")

FailedTracks ==
    {RemovalCalls[i].ids[1] : i \in op.f.fails \cap (1..Len(RemovalCalls))}

\* in the order of the favorites before the run
FailedRemovals == SelectSeq(pre.fav, LAMBDA t : t \in FailedTracks)

\* C25: a run of remove_all_favorite_tracks attempts removal only of the
\* tracks upstream at its start, returns True with the favorites empty
\* when all those removals succeed, and after any run the favorites left
\* are exactly the tracks whose removal call failed.
C25_RemainingAreFailedRemovals ==
    Returned("remove_all_favorite_tracks")
    => /\ \A i \in 1..Len(RemovalCalls) :
            RemovalCalls[i].ids[1] \in Range(pre.fav)
       /\ fav = FailedRemovals
       /\ FailedRemovals = <<>> => ret = RetBool(TRUE) /\ fav = <<>>

\* C25 (amended): a run whose fetch of the favorites raises returns False,
\* attempts nothing and leaves the favorites as they were.  A run whose
\* fetch succeeds attempts removal of exactly the tracks upstream at its
\* start, once each and in order, so never of a track an earlier run
\* removed; the favorites left are exactly the tracks whose removal call
\* failed, and it returns True, with the favorites empty, exactly when none
\* failed.
C25_RerunIsSafe ==
    Returned("remove_all_favorite_tracks")
    => IF op.f.x = 1
       THEN ret = RetBool(FALSE) /\ RemovalCalls = <<>> /\ fav = pre.fav
       ELSE /\ RemovalCalls
                 = [i \in 1..Len(pre.fav) |->
                      Call("favorites.remove_track", NoPid, <<pre.fav[i]>>)]
            /\ \A i \in 1..Len(RemovalCalls) :
                 RemovalCalls[i].ids[1] \notin TrackIds \ Range(pre.fav)
            /\ fav = FailedRemovals
            /\ ret = RetBool(FailedRemovals = <<>>)
            /\ ret.b => fav = <<>>

\* the second run after a run that could not remove track 2
C25_Witness ==
    /\ Returned("remove_all_favorite_tracks")
    /\ pre.fav = <<2>>
    /\ op.f.x = 0 /\ op.f.fails = {}
    /\ RemovalCalls = <<Call("favorites.remove_track", NoPid, <<2>>)>>
    /\ ret = RetBool(TRUE)
    /\ fav = <<>>

\* C29: whenever reorder_playlist returns True, the playlist afterwards
\* holds exactly the supplied track ids, all of them and in the supplied
\* order, as many as the len(track_ids) of its success message.
C29_ReorderedExactly ==
    (Returned("reorder_playlist") /\ ret = RetBool(TRUE))
    => /\ Len(pls[op.pid].tracks) = Len(op.ids)
       /\ \A i \in 1..Len(op.ids) :
            /\ PyInt(op.ids[i]).ok
            /\ pls[op.pid].tracks[i] = PyInt(op.ids[i]).val

\* the result of the fetch that just returned, had the collector been
\* built with that silent flag
FetchResultOf(silent) ==
    IF op.name = "get_favorite_tracks"
    THEN GetFavoriteTracksOf(silent, pre.fav, pre.pls, op.f).ret
    ELSE IF op.name = "get_playlist_tracks"
    THEN GetPlaylistTracksOf(silent, pre.fav, pre.pls, op.pid, op.f).ret
    ELSE SearchTracksOf(silent, pre.fav, pre.pls, op.limit, op.f).ret

\* C30: on the same upstream state get_favorite_tracks, get_playlist_tracks
\* and search_tracks give the same result with and without silent, and a
\* fetch that returns gives one dict per upstream record, in upstream
\* order, equal to what _format_track_results builds for it.
C30_SilentAgreesWithProgress ==
    (pc = "returned" /\ op.name \in {"get_favorite_tracks",
                                     "get_playlist_tracks", "search_tracks"})
    => /\ ret = FetchResultOf(op.silent)
       /\ FetchResultOf(TRUE) = FetchResultOf(FALSE)
       /\ (op.name = "get_favorite_tracks" /\ ret.kind # "raised")
            => ret = RetList(FormatTrackResults(pre.fav))
       /\ (op.name = "get_playlist_tracks" /\ ret.kind # "raised")
            => ret = RetList(FormatTrackResults(pre.pls[op.pid].tracks))

C30_Witness ==
    /\ Returned("get_favorite_tracks")
    /\ ~op.silent
    /\ pre.fav = <<2, 1>>
    /\ ret = RetList(<<TrackDict(Catalog(2)), TrackDict(Catalog(1))>>)
    /\ ret = FetchResultOf(TRUE)


----------------------------------------------------------------------------
(* Claims about main.py, checked under SpecCli *)

\* the process called connect() and it returned False
AuthenticationFailed == issued # <<>> /\ cliPc # "start" /\ collector = 0

\* C21: in every command that talks to Tidal a failed authentication ends
\* the process with exit code 1 before any Collector operation is issued
\* (only connect() and the calls of authenticate were made); in the
\* interactive command session_active is never set, so the menu loop is
\* never entered.
C21_AuthFailureIsFatal ==
    /\ AuthenticationFailed
       => /\ cliPc = "exited"
          /\ exitCode = Some(1)
          /\ issued = <<"connect">>
          /\ \A i \in 1..Len(calls) : calls[i].call \in AuthCallNames
          /\ fav \in FavoriteLists /\ pls = InitialPlaylists
    /\ collector = 0 => ~session_active
    /\ cliPc = "menu" => collector # 0

C21_Witness ==
    /\ AuthenticationFailed
    /\ command = "interactive"
    /\ cliPc = "exited"
    /\ exitCode = Some(1)
    /\ ~session_active

\* the valid, non-empty CSV and the owned playlist the reorder handler is
\* given
ReorderConfirmed ==
    /\ step.action = "reorder_playlist"
    /\ step.go = "proceed"
    /\ step.x = 0
    /\ LoadTracksFromCsv(fileExists, fileLines).status = "ok"
    /\ LoadTracksFromCsv(fileExists, fileLines).tracks # <<>>
    /\ OwnedOf(pls, PlaylistOrder) # <<>>

\* C24: the menu's "Reorder Playlist from CSV", given a valid non-empty
\* CSV and a confirmation, clears the chosen playlist and re-adds the
\* CSV's track ids in one add call through the Collector's
\* reorder_playlist, and finishes by reporting that operation's result.
C24_ReorderRunsThroughCollector ==
    ReorderConfirmed
    => /\ step.kind = "return"
       /\ CallsNamed(calls, "playlist.clear") # <<>>
          \/ CallsNamed(calls, "playlist.num_tracks") # <<>>

\* C26: a KeyboardInterrupt that reaches the outermost boundary of the
\* process ends it with a non-zero exit code.
C26_InterruptExitsNonZero ==
    (cliPc = "exited" /\ escaped = "KeyboardInterrupt") => exitCode # Some(0)

\* C27: the menu loop of the interactive session is left only after
\* session_active became false (a confirmed exit, or an interrupt or EOF
\* during the exit confirmation); an exception raised by a menu action is
\* caught and the loop goes on.
C27_LoopEndsOnlyWhenInactive ==
    (cliPc = "exited" /\ command = "interactive" /\ collector # 0)
    => ~session_active

====
